---- MODULE Spec2Model ----
(***************************************************************************)
(* A model of the EDB telemetry monitor of jwql                            *)
(* (jwql/instrument_monitors/common_monitors/edb_telemetry_monitor.py):   *)
(* the run-scoped dictionary of query results kept by                      *)
(* EdbMnemonicMonitor.get_dependency_data, and the loop of                 *)
(* EdbMnemonicMonitor.run over mnemonics and query windows.                *)
(*                                                                         *)
(* Time is a small range of integer ticks.  A series is a sequence of      *)
(* samples [t |-> tick, v |-> value] in the order the table holds them.    *)
(* A Python exception is modelled by the name of its class as the outcome  *)
(* of the call that raised it.                                             *)
(***************************************************************************)
EXTENDS Integers, Sequences, FiniteSets, TLC

\* ------------------------------------------------------------------ bounds

\* Time ticks are 0..MaxTime.
MaxTime == 2

\* Calls of get_dependency_data made by a client of the monitor object.
MaxCalls == 2

Times == 0..MaxTime

\* The mnemonics that can be asked for as a dependency.
Names == {"DEP_A", "DEP_B"}

\* The data range of a series that holds no sample.
NoTime == -1

VARIABLES
    edbTimes,        \* the ticks at which the engineering database holds a sample
    query_results,   \* self.query_results: mnemonic name -> EdbMnemonic
    calls,           \* the calls of get_dependency_data so far, oldest first
    saved,           \* merge: the saved series, the left operand of +
    fetched_new,     \* merge: the newly fetched series, the right operand of +
    summed,          \* merge: <<saved + fetched_new>> once it is computed
    units,           \* two units inside get_dependency_data: place and locals
    edb_queries,     \* the queries sent to the EDB, in order
    pc,              \* run(): the place the run has reached
    today,           \* run(): Time.now()
    mnemonic,        \* run(): the mnemonic of the current loop pass, with its
                     \*        telem_type and query_duration
    query_times,     \* run(): query_start_times zipped with query_end_times
    window,          \* run(): index of the current window in query_times
    window_results,  \* run(): what get_mnemonic_info gave for each window so far
    error,           \* run(): the exception that ended the run
    history,         \* run(): the mnemonics started so far and their states
    mnemonic_info,   \* run(): the local that accumulates the window results
    good_mnemonic_data,  \* get_mnemonic_info: <<the data after filtering>>
    all_conditions,  \* filtering: one list of intervals per dependency
    target_data,     \* filtering: the samples of the target, data.data
    full_condition,  \* filtering: <<condition(all_conditions)>> once computed
    extracted,       \* filtering: <<extracted data and block indexes>>
    change_dep_count,   \* find_all_changes: len(dep_list)
    change_dep_values,  \* find_all_changes: the values of the dependency
    changes,            \* find_all_changes: <<what the call gave>>
    clip_data,       \* sigma_clipped_stats: the values handed to it
    clipped,         \* sigma_clipped_stats: <<the values it kept>>
    timed_dates,     \* calc_timed_stats: mnem_data.data["dates"]
    timed_blocks,    \* calc_timed_stats: mnem_data.blocks
    timed_bintime,   \* calc_timed_stats: bintime
    timed_stats,     \* calc_timed_stats: <<the bins it made>>
    combine_info,    \* combining: the series of mnemonic_info, the left operand
    combine_obj,     \* combining: the series of combine_obj, the right operand
    product,         \* combining: <<mnemonic_info * combine_obj>> once computed
    plot_outcome,    \* combining: how lines 685-698 ended
    plotted,         \* combining: the series handed to bokeh_plot, in order
    run_served,      \* run(): the calls of get_dependency_data since the
                     \*        latest run() started: name, served from saved data
    earlier_saved,   \* run(): the names saved when a run() started
    pipe_args,       \* run_pipeline: <<the arguments and files of the call>>
    pipe_result,     \* run_pipeline: <<what the call did>>
    task_requests,   \* celery: the requests of the task made so far, in order
    task_state       \* celery: the state of each task message, by task id

cacheVars == <<edbTimes, query_results, calls>>
mergeVars == <<saved, fetched_new, summed>>
concVars == <<units, edb_queries>>
runVars == <<pc, today, mnemonic, query_times, window, window_results, error,
             history, mnemonic_info, good_mnemonic_data>>
condVars == <<all_conditions, target_data, full_condition, extracted>>
changeVars == <<change_dep_count, change_dep_values, changes>>
clipVars == <<clip_data, clipped>>
timedVars == <<timed_dates, timed_blocks, timed_bintime, timed_stats>>
combineVars == <<combine_info, combine_obj, product, plot_outcome, plotted>>
scopeVars == <<run_served, earlier_saved>>
pipeVars == <<pipe_args, pipe_result>>
taskVars == <<task_requests, task_state>>
otherVars == <<combineVars, scopeVars, pipeVars, taskVars>>
statVars == <<changeVars, clipVars, timedVars, otherVars>>
vars == <<cacheVars, mergeVars, concVars, runVars, condVars, statVars>>

\* --------------------------------------------------------------- helpers

Min(S) == CHOOSE x \in S : \A y \in S : x <= y

RECURSIVE SortedSeq(_)
SortedSeq(S) == IF S = {} THEN <<>>
                ELSE LET m == Min(S) IN <<m>> \o SortedSeq(S \ {m})

SelectIdx(seq, idx) == [i \in 1..Len(idx) |-> seq[idx[i]]]

TimesOf(data) == {data[i].t : i \in 1..Len(data)}

\* ------------------------------------------------- the engineering database

\* The value the database holds for a mnemonic at a tick.
EdbValue(name, t) == IF name = "DEP_A" THEN t % 2 ELSE (t + 1) % 2

\* ed.get_mnemonic(name, starttime, endtime) when the service answers: the
\* samples of the mnemonic in the requested range, in ascending time.
get_mnemonic(name, starttime, endtime) ==
    LET ts == SortedSeq({t \in edbTimes : starttime <= t /\ t <= endtime})
    IN [i \in 1..Len(ts) |-> [t |-> ts[i], v |-> EdbValue(name, ts[i])]]

\* The EdbMnemonic object built around a table of samples: the actual data
\* range is that of the first and last sample.
EdbMnemonic(name, data) ==
    [mnemonic_identifier |-> name,
     data |-> data,
     data_start_time |-> IF data = <<>> THEN NoTime ELSE data[1].t,
     data_end_time |-> IF data = <<>> THEN NoTime ELSE data[Len(data)].t]

\* A series without samples has no data range and covers nothing.
HasDataRange(entry) == entry.data_start_time # NoTime

\* ------------------------------------------------- get_dependency_data

\* bool(array) as numpy evaluates it for `a and b`: an array of one element
\* has that element's truth value, an array of several raises ValueError.
ArrayTruth(arr) == IF Len(arr) = 1 THEN (IF arr[1] THEN "True" ELSE "False")
                   ELSE IF Len(arr) = 0 THEN "False"
                   ELSE "ValueError"

\* np.where((dates > starttime) and (dates < endtime)): Python's `and`
\* returns its left operand when that is false and its right operand
\* otherwise; np.where then gives the indices of the true elements.
matching_times(data, starttime, endtime) ==
    LET left == [i \in 1..Len(data) |-> data[i].t > starttime]
        right == [i \in 1..Len(data) |-> data[i].t < endtime]
        truth == ArrayTruth(left)
        chosen == IF truth = "False" THEN left ELSE right
    IN IF truth = "ValueError"
       THEN [outcome |-> "ValueError", idx |-> <<>>]
       ELSE [outcome |-> "ok",
             idx |-> SortedSeq({i \in 1..Len(chosen) : chosen[i]})]

\* "We need the full time to be covered"
FullTimeCovered(entry, starttime, endtime) ==
    /\ HasDataRange(entry)
    /\ entry.data_start_time <= starttime
    /\ entry.data_end_time >= endtime

\* The saved data cover the range: slice them, no query.
UseSavedData(qr, name, starttime, endtime) ==
    LET m == matching_times(qr[name].data, starttime, endtime)
    IN [outcome |-> m.outcome,
        value |-> SelectIdx(qr[name].data, m.idx),
        fetched |-> <<>>,
        cache |-> qr]

\* Mutant of Requery: only the part after the saved data is asked for.
RequeryMissingOnly(qr, name, starttime, endtime, remote_ok) ==
    [outcome |-> IF remote_ok THEN "NameError" ELSE "RetrievalError",
     value |-> <<>>,
     fetched |-> <<[name |-> name,
                    start |-> IF HasDataRange(qr[name])
                              THEN qr[name].data_end_time + 1 ELSE starttime,
                    end |-> endtime]>>,
     cache |-> qr]

\* Mutant of Requery: the new query result replaces the saved one.
RequeryReplaces(qr, name, starttime, endtime, remote_ok) ==
    [outcome |-> IF remote_ok THEN "ok" ELSE "RetrievalError",
     value |-> IF remote_ok THEN get_mnemonic(name, starttime, endtime)
               ELSE <<>>,
     fetched |-> <<[name |-> name, start |-> starttime, end |-> endtime]>>,
     cache |-> IF remote_ok
               THEN [qr EXCEPT ![name] =
                        EdbMnemonic(name, get_mnemonic(name, starttime, endtime))]
               ELSE qr]

\* The saved data do not cover the range: query the EDB for the whole range.
\* The line after the query reads the misspelt name menmonic_data, so the call
\* raises NameError before the saved results are touched.
Requery(qr, name, starttime, endtime, remote_ok) ==
    [outcome |-> IF remote_ok THEN "NameError" ELSE "RetrievalError",
     value |-> <<>>,
     fetched |-> <<[name |-> name, start |-> starttime, end |-> endtime]>>,
     cache |-> qr]

\* Mutant of FirstQuery: the dictionary entry is created before the query
\* is known to have succeeded.
FirstQuerySavesOnFailure(qr, name, starttime, endtime, remote_ok) ==
    LET data == IF remote_ok THEN get_mnemonic(name, starttime, endtime)
                ELSE <<>>
    IN [outcome |-> IF remote_ok THEN "ok" ELSE "RetrievalError",
        value |-> data,
        fetched |-> <<[name |-> name, start |-> starttime, end |-> endtime]>>,
        cache |-> [n \in DOMAIN qr \cup {name} |->
                      IF n = name THEN EdbMnemonic(name, data) ELSE qr[n]]]

\* The mnemonic has not been queried before: query and save.
FirstQuery(qr, name, starttime, endtime, remote_ok) ==
    LET data == get_mnemonic(name, starttime, endtime)
        req == <<[name |-> name, start |-> starttime, end |-> endtime]>>
    IN IF remote_ok
       THEN [outcome |-> "ok", value |-> data, fetched |-> req,
             cache |-> [n \in DOMAIN qr \cup {name} |->
                           IF n = name THEN EdbMnemonic(name, data) ELSE qr[n]]]
       ELSE [outcome |-> "RetrievalError", value |-> <<>>, fetched |-> req,
             cache |-> qr]

get_dependency_data(qr, name, starttime, endtime, remote_ok) ==
    IF name \in DOMAIN qr
    THEN IF FullTimeCovered(qr[name], starttime, endtime)
         THEN UseSavedData(qr, name, starttime, endtime)
         ELSE Requery(qr, name, starttime, endtime, remote_ok)
    ELSE FirstQuery(qr, name, starttime, endtime, remote_ok)

\* ---------------------------------------------------------------- actions

\* A client calls get_dependency_data; the service answers or fails.
GetDependencyData ==
    /\ Len(calls) < MaxCalls
    /\ \E name \in Names, starttime \in Times, endtime \in Times,
          remote_ok \in BOOLEAN :
         /\ starttime <= endtime
         /\ LET r == get_dependency_data(query_results, name, starttime,
                                         endtime, remote_ok)
            IN /\ query_results' = r.cache
               /\ calls' = Append(calls,
                     [name |-> name, start |-> starttime, end |-> endtime,
                      outcome |-> r.outcome, value |-> r.value,
                      fetched |-> r.fetched,
                      remote_ok |-> remote_ok,
                      after |-> r.cache,
                      covered |-> /\ name \in DOMAIN query_results
                                  /\ FullTimeCovered(query_results[name],
                                                     starttime, endtime),
                      before |-> query_results])
    /\ UNCHANGED <<edbTimes, mergeVars, concVars, runVars>>
    /\ UNCHANGED <<condVars, statVars>>

CacheInit ==
    /\ edbTimes \in SUBSET Times
    /\ query_results = <<>>
    /\ calls = <<>>

MergeIdle ==
    /\ saved = <<>>
    /\ fetched_new = <<>>
    /\ summed = <<>>

ConcIdle ==
    /\ units = <<>>
    /\ edb_queries = <<>>

RunIdle ==
    /\ pc = "idle"
    /\ today = 0
    /\ mnemonic = <<>>
    /\ query_times = <<>>
    /\ window = 0
    /\ window_results = <<>>
    /\ error = "none"
    /\ history = <<>>
    /\ mnemonic_info = "unbound"
    /\ good_mnemonic_data = <<>>

CondIdle ==
    /\ all_conditions = <<>>
    /\ target_data = <<>>
    /\ full_condition = <<>>
    /\ extracted = <<>>

ChangeIdle ==
    /\ change_dep_count = 0
    /\ change_dep_values = <<>>
    /\ changes = <<>>

ClipIdle ==
    /\ clip_data = <<>>
    /\ clipped = <<>>

TimedIdle ==
    /\ timed_dates = <<>>
    /\ timed_blocks = <<>>
    /\ timed_bintime = 0
    /\ timed_stats = <<>>

CombineIdle ==
    /\ combine_info = <<>>
    /\ combine_obj = <<>>
    /\ product = <<>>
    /\ plot_outcome = "none"
    /\ plotted = <<>>

ScopeIdle == run_served = {} /\ earlier_saved = {}

PipeIdle == pipe_args = <<>> /\ pipe_result = <<>>

TaskIdle == task_requests = <<>> /\ task_state = <<>>

OtherIdle == CombineIdle /\ ScopeIdle /\ PipeIdle /\ TaskIdle

StatIdle == ChangeIdle /\ ClipIdle /\ TimedIdle /\ OtherIdle

Init == CacheInit /\ MergeIdle /\ ConcIdle /\ RunIdle /\ CondIdle /\ StatIdle

Next == GetDependencyData

Spec == Init /\ [][Next]_vars

\* ------------------------------------------------------ claims on the cache

\* Call i was the first query of its mnemonic, the service answered, and the
\* call returned at least one sample.
FirstQuerySucceeded(i) ==
    /\ calls[i].name \notin DOMAIN calls[i].before
    /\ calls[i].outcome = "ok"
    /\ calls[i].value # <<>>

SameRange(i, j) ==
    /\ calls[i].name = calls[j].name
    /\ calls[i].start = calls[j].start
    /\ calls[i].end = calls[j].end

\* The samples of a series whose time lies in [starttime, endtime].
InRange(data, starttime, endtime) ==
    SelectIdx(data, SortedSeq({i \in 1..Len(data) :
                 starttime <= data[i].t /\ data[i].t <= endtime}))

\* C1: two calls in a row with the identical range issue exactly one remote
\* fetch in total, and the second call is served from the cache.  Stated for
\* a first call that returned samples and a service that answers.
C1_TwiceOneFetch ==
    \A i \in 1..(Len(calls) - 1) :
        (FirstQuerySucceeded(i) /\ SameRange(i, i + 1) /\ calls[i + 1].remote_ok)
        => /\ Len(calls[i].fetched) + Len(calls[i + 1].fetched) = 1
           /\ calls[i + 1].outcome = "ok"

\* Call i + 1 asks for the range of call i extended at its end.
ExtendsAtEnd(i) ==
    /\ FirstQuerySucceeded(i)
    /\ calls[i + 1].name = calls[i].name
    /\ calls[i + 1].start = calls[i].start
    /\ calls[i + 1].end > calls[i].end

\* C2 as claimed (the service answers both calls): after get_or_fetch(name, t0, t1), the call
\* get_or_fetch(name, t0, t2) with t2 > t1 issues one remote fetch, and it
\* covers only (t1, t2].
C2_FetchOnlyMissing ==
    \A i \in 1..(Len(calls) - 1) :
        (ExtendsAtEnd(i) /\ calls[i + 1].remote_ok)
        => /\ Len(calls[i + 1].fetched) = 1
           /\ calls[i + 1].fetched[1].start > calls[i].end
           /\ calls[i + 1].fetched[1].end = calls[i + 1].end

\* C2 as amended: that call issues one remote fetch, and it asks for the
\* whole requested range [t0, t2], the already covered [t0, t1] included;
\* no call ever asks the service for anything but its own range.
C2_FetchWholeRange ==
    /\ \A i \in 1..Len(calls) : \A k \in 1..Len(calls[i].fetched) :
          calls[i].fetched[k] = [name |-> calls[i].name,
                                 start |-> calls[i].start,
                                 end |-> calls[i].end]
    /\ \A i \in 1..(Len(calls) - 1) :
          ExtendsAtEnd(i) => Len(calls[i + 1].fetched) = 1

C2_Witness ==
    \E i \in 1..(Len(calls) - 1) :
        /\ ExtendsAtEnd(i)
        /\ calls[i + 1].remote_ok
        /\ calls[i + 1].fetched[1].start = calls[i].start
        /\ calls[i + 1].fetched[1].start <= calls[i].end

\* C3: when the cached coverage contains the requested range, the call makes
\* no remote call and returns exactly the cached samples in that range.
C3_CoveredServedFromCache ==
    \A i \in 1..Len(calls) :
        calls[i].covered
        => /\ calls[i].fetched = <<>>
           /\ calls[i].outcome = "ok"
           /\ calls[i].value = InRange(calls[i].before[calls[i].name].data,
                                       calls[i].start, calls[i].end)

\* C4: when the remote fetch of a call fails, the call fails with
\* RetrievalError and the cache is exactly what it was before the call.
C4_FailureLeavesCache ==
    \A i \in 1..Len(calls) :
        (calls[i].fetched # <<>> /\ ~calls[i].remote_ok)
        => /\ calls[i].outcome = "RetrievalError"
           /\ calls[i].after = calls[i].before
           /\ (i = Len(calls) => query_results = calls[i].before)

C4_Witness ==
    \E i \in 1..Len(calls) :
        /\ calls[i].fetched # <<>>
        /\ ~calls[i].remote_ok
        /\ calls[i].before # <<>>
        /\ calls[i].name \notin DOMAIN calls[i].before

\* Entry `new` holds everything entry `old` holds.
Extends(old, new) ==
    /\ TimesOf(old.data) \subseteq TimesOf(new.data)
    /\ HasDataRange(old) => /\ HasDataRange(new)
                            /\ new.data_start_time <= old.data_start_time
                            /\ new.data_end_time >= old.data_end_time

\* C5: over any sequence of calls a cache entry is only ever extended: a
\* cached mnemonic stays cached, its covered range never shrinks and none
\* of its sample times disappears.
C5_OnlyExtended ==
    \A i \in 1..Len(calls) : \A n \in DOMAIN calls[i].before :
        /\ n \in DOMAIN calls[i].after
        /\ Extends(calls[i].before[n], calls[i].after[n])
        /\ (i = Len(calls) => calls[i].after = query_results)

C5_Witness ==
    \E i \in 1..Len(calls) :
        /\ calls[i].name \in DOMAIN calls[i].before
        /\ calls[i].before[calls[i].name].data # <<>>
        /\ ~calls[i].covered
        /\ calls[i].remote_ok
        /\ calls[i].start < calls[i].before[calls[i].name].data_start_time

\* ------------------------------------- EdbMnemonic.__add__ (line 443's `+`)

Values == {0, 1}

\* The series a query can return: ascending in time, one sample per tick.
Series ==
    UNION {{[i \in 1..Len(SortedSeq(S)) |->
                [t |-> SortedSeq(S)[i], v |-> f[SortedSeq(S)[i]]]] :
            f \in [S -> Values]} : S \in SUBSET Times}

\* Of the samples that share a timestamp, the one latest in the sequence.
KeepLast(seq) ==
    SelectIdx(seq, SortedSeq({i \in 1..Len(seq) :
        \A j \in (i + 1)..Len(seq) : seq[j].t # seq[i].t}))

\* Of the samples that share a timestamp, the one first in the sequence.
KeepFirst(seq) ==
    SelectIdx(seq, SortedSeq({i \in 1..Len(seq) :
        \A j \in 1..(i - 1) : seq[j].t # seq[i].t}))

RECURSIVE InsertByTime(_, _)
InsertByTime(sorted, x) ==
    IF sorted = <<>> THEN <<x>>
    ELSE IF x.t < sorted[1].t THEN <<x>> \o sorted
    ELSE <<sorted[1]>> \o InsertByTime(Tail(sorted), x)

\* Stable sort: ascending in time.
RECURSIVE SortByTime(_)
SortByTime(seq) ==
    IF seq = <<>> THEN <<>>
    ELSE InsertByTime(SortByTime(SubSeq(seq, 1, Len(seq) - 1)), seq[Len(seq)])

\* Mutant of add: on a collision the saved value is kept (what np.unique with
\* return_index keeps).
add_keeps_saved(a, b) == SortByTime(KeepFirst(a \o b))

\* saved + new: the rows of both, one per timestamp (on a collision the one
\* fetched last), re-sorted in time.
add(a, b) == SortByTime(KeepLast(a \o b))

MergeInit ==
    /\ saved \in Series
    /\ fetched_new \in Series
    /\ summed = <<>>

\* self.query_results[name] = self.query_results[name] + mnemonic_data
Merge ==
    /\ summed = <<>>
    /\ summed' = <<add(saved, fetched_new)>>
    /\ UNCHANGED <<saved, fetched_new, cacheVars, concVars, runVars>>
    /\ UNCHANGED <<condVars, statVars>>

CacheIdle ==
    /\ edbTimes = {}
    /\ query_results = <<>>
    /\ calls = <<>>

InitMerge == MergeInit /\ CacheIdle /\ ConcIdle /\ RunIdle /\ CondIdle
             /\ StatIdle

SpecMerge == InitMerge /\ [][Merge]_vars

Units == {1, 2}

\* The mnemonic both units depend on.
SharedDependency == "DEP_A"

InitConc ==
    /\ CondIdle
    /\ StatIdle
    /\ edbTimes \in SUBSET Times
    /\ query_results = <<>>
    /\ calls = <<>>
    /\ MergeIdle
    /\ RunIdle
    /\ edb_queries = <<>>
    /\ units \in [Units -> {r \in {[pc |-> "check", name |-> SharedDependency,
                                   start |-> s, end |-> e, local |-> <<>>,
                                   stored |-> FALSE, outcome |-> "running",
                                   value |-> <<>>] :
                                  s \in Times, e \in Times} :
                            r.start <= r.end}]

\* Lines 425-429: is the mnemonic saved, and do the saved data cover the range?
UnitCheck(u) ==
    /\ units[u].pc = "check"
    /\ units' = [units EXCEPT ![u].pc =
          IF units[u].name \in DOMAIN query_results
          THEN IF FullTimeCovered(query_results[units[u].name],
                                  units[u].start, units[u].end)
               THEN "use_saved" ELSE "requery"
          ELSE "first_query"]
    /\ UNCHANGED <<cacheVars, mergeVars, edb_queries, runVars>>
    /\ UNCHANGED <<condVars, statVars>>

\* Lines 431-434.
UnitUseSaved(u) ==
    /\ units[u].pc = "use_saved"
    /\ LET r == UseSavedData(query_results, units[u].name, units[u].start,
                             units[u].end)
       IN units' = [units EXCEPT ![u].pc = "done",
                                 ![u].outcome = r.outcome,
                                 ![u].value = r.value]
    /\ UNCHANGED <<cacheVars, mergeVars, edb_queries, runVars>>
    /\ UNCHANGED <<condVars, statVars>>

\* Lines 437-438: the query, then NameError.
UnitRequery(u) ==
    /\ units[u].pc = "requery"
    /\ edb_queries' = Append(edb_queries,
          [name |-> units[u].name, start |-> units[u].start,
           end |-> units[u].end])
    /\ units' = [units EXCEPT ![u].pc = "done", ![u].outcome = "NameError"]
    /\ UNCHANGED <<cacheVars, mergeVars, runVars>>
    /\ UNCHANGED <<condVars, statVars>>

\* Line 458, right-hand side: the query of the EDB.
UnitFirstQuery(u) ==
    /\ units[u].pc = "first_query"
    /\ edb_queries' = Append(edb_queries,
          [name |-> units[u].name, start |-> units[u].start,
           end |-> units[u].end])
    /\ units' = [units EXCEPT ![u].pc = "store",
          ![u].local = get_mnemonic(units[u].name, units[u].start,
                                    units[u].end)]
    /\ UNCHANGED <<cacheVars, mergeVars, runVars>>
    /\ UNCHANGED <<condVars, statVars>>

\* Line 458, the store, and lines 459-460, which read the entry back.
UnitStore(u) ==
    /\ units[u].pc = "store"
    /\ query_results' =
          [n \in DOMAIN query_results \cup {units[u].name} |->
              IF n = units[u].name
              THEN EdbMnemonic(units[u].name, units[u].local)
              ELSE query_results[n]]
    /\ units' = [units EXCEPT ![u].pc = "done", ![u].outcome = "ok",
                              ![u].stored = TRUE,
                              ![u].value = units[u].local]
    /\ UNCHANGED <<edbTimes, calls, mergeVars, edb_queries, runVars>>
    /\ UNCHANGED <<condVars, statVars>>

NextConc ==
    \E u \in Units :
        \/ UnitCheck(u)
        \/ UnitUseSaved(u)
        \/ UnitRequery(u)
        \/ UnitFirstQuery(u)
        \/ UnitStore(u)

SpecConc == InitConc /\ [][NextConc]_vars

\* C7: when two units request the same dependency concurrently, under every
\* interleaving there is no duplicate remote fetch for the same range and no
\* lost update: the final cached series holds the samples both inserted.
\* It is stated for ranges that begin and end on a sample, where the saved
\* data of one unit cover the equal range of the other, so that only the
\* interleaving of the two units can cause a second fetch.
C7_NoDuplicateNoLostUpdate ==
    (\A u \in Units : /\ units[u].pc = "done"
                      /\ units[u].start \in edbTimes
                      /\ units[u].end \in edbTimes)
    => /\ \A i, j \in 1..Len(edb_queries) :
             edb_queries[i] = edb_queries[j] => i = j
       /\ \A u \in Units :
             units[u].stored
             => TimesOf(units[u].local)
                   \subseteq TimesOf(query_results[units[u].name].data)

\* ------------------- filter_telemetry: condition.condition and extract_data

Max(S) == CHOOSE x \in S : \A y \in S : x >= y

\* The requested range of a window as a half-open interval of ticks.
RequestedRange == [start |-> Min(Times), end |-> Max(Times) + 1]

\* A half-open interval [start, end) inside the requested range.
Intervals ==
    {w \in {[start |-> s, end |-> e] :
               s \in RequestedRange.start..RequestedRange.end,
               e \in RequestedRange.start..RequestedRange.end} :
        w.start < w.end}

NonOverlapping(S) ==
    \A a \in S : \A b \in S : a = b \/ a.end <= b.start \/ b.end <= a.start

RECURSIVE ByStart(_)
ByStart(S) ==
    IF S = {} THEN <<>>
    ELSE LET first == CHOOSE a \in S : \A b \in S : a.start <= b.start
         IN <<first>> \o ByStart(S \ {first})

\* A condition, what relation_test returns for one dependency: a list of
\* intervals, ascending and non-overlapping.
Conditions == {ByStart(S) : S \in {T \in SUBSET Intervals : NonOverlapping(T)}}

\* The condition of an empty dependency list: always true.
AlwaysTrue == <<RequestedRange>>

\* The ticks a list of intervals covers.
Covered(intervals) ==
    {t \in RequestedRange.start..(RequestedRange.end - 1) :
        \E i \in 1..Len(intervals) :
            intervals[i].start <= t /\ t < intervals[i].end}

RECURSIVE MaximalRuns(_, _)
MaximalRuns(ticks, t) ==
    IF t >= RequestedRange.end THEN <<>>
    ELSE IF t \notin ticks THEN MaximalRuns(ticks, t + 1)
    ELSE LET stop == Min({x \in t..RequestedRange.end : x \notin ticks})
         IN <<[start |-> t, end |-> stop]>> \o MaximalRuns(ticks, stop)

\* The intersection laid out as the maximal runs of the ticks both cover.
IntersectMaximalRuns(a, b) ==
    MaximalRuns(Covered(a) \cap Covered(b), RequestedRange.start)

\* The sweep with the overlap of two intervals taken from the earlier start.
RECURSIVE IntersectFromEarlierStart(_, _)
IntersectFromEarlierStart(a, b) ==
    IF a = <<>> \/ b = <<>> THEN <<>>
    ELSE LET lo == Min({a[1].start, b[1].start})
             hi == Min({a[1].end, b[1].end})
             rest == IF a[1].end < b[1].end
                     THEN IntersectFromEarlierStart(Tail(a), b)
                     ELSE IntersectFromEarlierStart(a, Tail(b))
         IN IF lo < hi THEN <<[start |-> lo, end |-> hi]>> \o rest ELSE rest

\* The intersection of two conditions: a sweep over both lists that emits
\* the overlap of the two current intervals and drops the one ending first.
RECURSIVE Intersect(_, _)
Intersect(a, b) ==
    IF a = <<>> \/ b = <<>> THEN <<>>
    ELSE LET lo == Max({a[1].start, b[1].start})
             hi == Min({a[1].end, b[1].end})
             rest == IF a[1].end < b[1].end
                     THEN Intersect(Tail(a), b)
                     ELSE Intersect(a, Tail(b))
         IN IF lo < hi THEN <<[start |-> lo, end |-> hi]>> \o rest ELSE rest

\* condition.condition(all_conditions), line 324: the times at which every
\* condition of the list holds.
RECURSIVE condition(_)
condition(conditions) ==
    IF conditions = <<>> THEN AlwaysTrue
    ELSE IF Len(conditions) = 1 THEN conditions[1]
    ELSE Intersect(conditions[1], condition(Tail(conditions)))

\* A sample lies in an interval closed at both ends.
InClosedInterval(sample, w) == w.start <= sample.t /\ sample.t <= w.end

\* A sample lies in the half-open interval w.
InInterval(sample, w) == w.start <= sample.t /\ sample.t < w.end

SamplesIn(data, w) == SelectIdx(data, SortedSeq({i \in 1..Len(data) : InInterval(data[i], w)}))

\* extract_data with every later boundary put one sample too late.
RECURSIVE extract_data_late_boundary(_, _, _)
extract_data_late_boundary(intervals, data, sofar) ==
    IF intervals = <<>> THEN sofar
    ELSE LET run == SamplesIn(data, intervals[1])
             blocks == IF run # <<>> /\ sofar.extracted_data # <<>>
                       THEN Append(sofar.block_indexes,
                                   Len(sofar.extracted_data) + 1)
                       ELSE sofar.block_indexes
         IN extract_data_late_boundary(Tail(intervals), data,
                         [extracted_data |-> sofar.extracted_data \o run,
                          block_indexes |-> blocks])

\* full_condition.extract_data(data.data), line 325: interval by interval,
\* the samples of the target inside the interval; block_indexes holds 0 and
\* the index of the first extracted sample of every later interval's run.
RECURSIVE extract_data(_, _, _)
extract_data(intervals, data, sofar) ==
    IF intervals = <<>> THEN sofar
    ELSE LET run == SamplesIn(data, intervals[1])
             blocks == IF run # <<>> /\ sofar.extracted_data # <<>>
                       THEN Append(sofar.block_indexes,
                                   Len(sofar.extracted_data))
                       ELSE sofar.block_indexes
         IN extract_data(Tail(intervals), data,
                         [extracted_data |-> sofar.extracted_data \o run,
                          block_indexes |-> blocks])

NothingExtracted == [extracted_data |-> <<>>, block_indexes |-> <<0>>]

\* ------------------------------------------------- EdbMnemonicMonitor.run

\* The length of a day, in ticks.
DayTicks == 2

\* most_recent_search = Time('2021-09-01'), as a tick.
MostRecentSearch == 0

\* The latest tick Time.now() can give.
MaxToday == 6

\* The longest query duration utils.get_query_duration can give, in ticks.
MaxDuration == 3

\* The mnemonics one run can find in its file.
MaxMnemonics == 2

TelemTypes == {"daily_means", "block_means", "every_change", "time_interval",
               "none"}

\* The "dependency" lists a mnemonic of the file can have.
DependencyLists == {<<>>, <<"DEP_A">>, <<"DEP_A", "DEP_B">>}

\* The "plot_data" entries a mnemonic of the file can have.
PlotData == {"nominal", "*DEP_B", "DEP_B"}

\* int(x / y) of Python: truncation towards zero.
TruncDiv(x, y) == IF x >= 0 THEN x \div y ELSE -((-x) \div y)

\* The windows of lines 618-621 laid out latest first.
QueryTimesLatestFirst(now, query_duration) ==
    LET starttime == MostRecentSearch + query_duration
        time_range == TruncDiv(now - starttime, DayTicks)
    IN [delta \in 0..(time_range - 1) |->
           [start |-> starttime + (time_range - 1 - delta) * DayTicks,
            end |-> starttime + (time_range - 1 - delta) * DayTicks
                    + query_duration]]

\* Lines 605-621: one query per day from starttime, each query_duration long.
QueryTimes(now, query_duration) ==
    LET starttime == MostRecentSearch + query_duration
        time_range == TruncDiv(now - starttime, DayTicks)
    IN [delta \in 0..(time_range - 1) |->
           [start |-> starttime + delta * DayTicks,
            end |-> starttime + delta * DayTicks + query_duration]]

\* 0-based list of the loop to the 1-based sequence of the model.
AsSeq(f) == [i \in 1..Cardinality(DOMAIN f) |-> f[i - 1]]

Query(name, starttime, endtime) ==
    [name |-> name, start |-> starttime, end |-> endtime]

\* filter_telemetry, lines 297-303: get_dependency_data for each dependency
\* in turn, from dependency i on; the first exception ends the loop.
RECURSIVE QueryDependencies(_, _, _, _, _, _, _)
QueryDependencies(qr, dep_list, i, starttime, endtime, dep_ok, queries) ==
    IF i > Len(dep_list)
    THEN [outcome |-> "ok", cache |-> qr, queries |-> queries]
    ELSE LET r == get_dependency_data(qr, dep_list[i], starttime, endtime,
                                      dep_ok[i])
         IN IF r.outcome # "ok"
            THEN [outcome |-> r.outcome, cache |-> r.cache,
                  queries |-> queries \o r.fetched]
            ELSE QueryDependencies(r.cache, dep_list, i + 1, starttime,
                                   endtime, dep_ok, queries \o r.fetched)

\* filter_telemetry for a non-empty dependency list.  After the dependency
\* queries, lines 324-325 combine the conditions and extract the data
\* (extracted: these lines are reached); then np.min of an empty extraction raises ValueError (line 329), and
\* otherwise line 331 raises NameError: EdbMnemonic is not a name of the
\* module (only `ed` is imported).
filter_telemetry(qr, data, dep_list, starttime, endtime, dep_ok, extracted_empty) ==
    LET q == QueryDependencies(qr, dep_list, 1, starttime, endtime, dep_ok,
                               <<>>)
    IN [outcome |-> IF q.outcome # "ok" THEN q.outcome
                    ELSE IF extracted_empty \/ data = <<>> THEN "ValueError"
                    ELSE "NameError",
        cache |-> q.cache,
        queries |-> q.queries,
        extracted |-> q.outcome = "ok"]

\* Lines 510-530 for a mnemonic without dependencies.  calc_daily_stats and
\* calc_block_stats stand inside a string literal (lines 124-222), so they
\* are no attributes of the monitor; calc_timed_stats over blocks = [0] loops
\* zero times and returns four empty lists.
Statistics(telem_type, data) ==
    IF Len(data) > 0
    THEN CASE telem_type \in {"daily_means", "block_means"} -> "AttributeError"
           [] telem_type = "time_interval" -> "data"
           [] OTHER -> "TypeError"
    ELSE "None"

\* Lines 503-505 with the first sample dropped.
DropFirstSample(data) ==
    [data |-> IF data = <<>> THEN data ELSE Tail(data), blocks |-> <<0>>]

\* Lines 503-505, no dependencies: keep all the data, in one block.
KeepAllData(data) == [data |-> data, blocks |-> <<0>>]

\* get_mnemonic_info: what it returns ("data", "None") or raises, the stage
\* that raised, the saved query results and the EDB queries it made.
get_mnemonic_info(qr, m, starttime, endtime, target_ok, dep_ok, extracted_empty) ==
    LET data == get_mnemonic(m.name, starttime, endtime)
        target == <<Query(m.name, starttime, endtime)>>
    IN IF ~target_ok
       THEN [outcome |-> "RetrievalError", stage |-> "fetch", cache |-> qr,
             queries |-> target, good |-> <<>>, extracted |-> FALSE]
       ELSE IF Len(m.dependency) > 0
       THEN LET f == filter_telemetry(qr, data, m.dependency, starttime,
                                      endtime, dep_ok, extracted_empty)
            IN [outcome |-> f.outcome, stage |-> "filter", cache |-> f.cache,
                queries |-> target \o f.queries, good |-> <<>>,
                extracted |-> f.extracted]
       ELSE IF m.telem_type = "every_change"
       THEN \* find_all_changes: dep_list[0] of an empty list (line 349)
            [outcome |-> "IndexError", stage |-> "aggregate", cache |-> qr,
             queries |-> target, good |-> <<KeepAllData(data)>>,
             extracted |-> FALSE]
       ELSE [outcome |-> Statistics(m.telem_type, data),
             stage |-> "aggregate", cache |-> qr, queries |-> target,
             good |-> <<KeepAllData(data)>>, extracted |-> FALSE]

Returned == {"data", "None"}

SetState(h, state) == [h EXCEPT ![Len(h)] = state]

\* The values Time.now() can take (line 585): from a day before the last
\* recorded search (a clock that runs behind) up to MaxToday.
Now == (MostRecentSearch - DayTicks)..MaxToday

\* Line 566 with the dictionary of the instance kept as it is.
RunCacheKept(qr) == qr

\* Line 566, self.query_results = {}: the dictionary a run starts with,
\* whatever the instance held before.
RunCache(qr) == <<>>

\* Line 566 and line 585.
RunStart ==
    /\ pc = "idle"
    /\ query_results' = RunCache(query_results)
    /\ run_served' = {}
    /\ earlier_saved' = earlier_saved \cup DOMAIN query_results
    /\ today' \in Now
    /\ pc' = "next_mnemonic"
    /\ UNCHANGED <<edbTimes, calls, mergeVars, concVars, mnemonic,
                   query_times, window, window_results, error, history>>
    /\ UNCHANGED <<mnemonic_info, good_mnemonic_data, condVars>>
    /\ UNCHANGED <<changeVars, clipVars, timedVars, combineVars, pipeVars>>
    /\ UNCHANGED taskVars

\* Lines 592-596: the loops reach the next mnemonic of the file.
NextMnemonic ==
    /\ pc = "next_mnemonic"
    /\ Len(history) < MaxMnemonics
    /\ \E telem_type \in TelemTypes, dep_list \in DependencyLists,
          plot_data \in PlotData, query_duration \in 1..MaxDuration :
          mnemonic' = [name |-> "TARGET", telem_type |-> telem_type,
                       dependency |-> dep_list, plot_data |-> plot_data,
                       query_duration |-> query_duration]
    /\ history' = Append(history, "QUERY_PENDING")
    /\ pc' = "query_times"
    /\ UNCHANGED <<cacheVars, mergeVars, concVars, today, query_times, window,
                   window_results, error>>
    /\ UNCHANGED <<mnemonic_info, good_mnemonic_data, condVars, statVars>>

\* Lines 592-596: the file holds no further mnemonic.
RunEnd ==
    /\ pc = "next_mnemonic"
    /\ pc' = "finished"
    /\ UNCHANGED <<cacheVars, mergeVars, concVars, today, mnemonic,
                   query_times, window, window_results, error, history>>
    /\ UNCHANGED <<mnemonic_info, good_mnemonic_data, condVars, statVars>>

\* Lines 598-629.  DEFAULT_EDB_QUERY_START_TIME (line 628) is no name of the
\* module: telem_type "none" raises NameError.
ComputeQueryTimes ==
    /\ pc = "query_times"
    /\ IF mnemonic.telem_type # "none"
       THEN /\ query_times' = AsSeq(QueryTimes(today, mnemonic.query_duration))
            /\ pc' = "discard"
            /\ error' = error
       ELSE /\ query_times' = <<>>
            /\ pc' = "crashed"
            /\ error' = "NameError"
    /\ UNCHANGED <<cacheVars, mergeVars, concVars, today, mnemonic, window,
                   window_results, history>>
    /\ UNCHANGED <<mnemonic_info, good_mnemonic_data, condVars, statVars>>

\* Lines 631-638.  query_end_times[-1] of an empty list raises IndexError;
\* when the last end time is after today, line 634 indexes a list with an
\* array of booleans, which raises TypeError.
DiscardFuture ==
    /\ pc = "discard"
    /\ IF query_times = <<>>
       THEN pc' = "crashed" /\ error' = "IndexError"
                            /\ UNCHANGED <<window, history>>
       ELSE IF query_times[Len(query_times)].end > today
       THEN pc' = "crashed" /\ error' = "TypeError"
                            /\ UNCHANGED <<window, history>>
       ELSE /\ pc' = "window"
            /\ window' = 1
            /\ history' = SetState(history, "PER_WINDOW_PROCESSING")
            /\ error' = error
    /\ window_results' = <<>>
    /\ UNCHANGED <<cacheVars, mergeVars, concVars, today, mnemonic,
                   query_times>>
    /\ UNCHANGED <<mnemonic_info, good_mnemonic_data, condVars, statVars>>

\* Line 645: get_mnemonic_info for the current window.  Nothing in run()
\* catches what it raises.  The combination of the conditions that
\* relation_test finds on the dependencies is drawn from the conditions
\* (without dependencies there is none); the conditions of the single
\* dependencies are not kept.
ProcessWindow ==
    /\ pc = "window"
    /\ window <= Len(query_times)
    /\ \E target_ok \in BOOLEAN, dep_ok \in [1..2 -> BOOLEAN],
          combined \in IF mnemonic.dependency = <<>> THEN {<<>>}
                       ELSE Conditions :
         LET data == get_mnemonic(mnemonic.name, query_times[window].start,
                                 query_times[window].end)
             ex == extract_data(combined, data, NothingExtracted)
             r == get_mnemonic_info(query_results, mnemonic,
                                    query_times[window].start,
                                    query_times[window].end,
                                    target_ok, dep_ok,
                                    ex.extracted_data = <<>>)
         IN /\ IF r.extracted
               THEN /\ target_data' = data
                    /\ full_condition' = <<combined>>
                    /\ extracted' = <<ex>>
               ELSE UNCHANGED <<target_data, full_condition, extracted>>
            /\ query_results' = r.cache
            /\ edb_queries' = edb_queries \o r.queries
            /\ window_results' = Append(window_results, r.outcome)
            /\ good_mnemonic_data' = r.good
            /\ IF r.outcome \in Returned
               THEN pc' = "check_info" /\ error' = error
               ELSE pc' = "crashed" /\ error' = r.outcome
    /\ UNCHANGED <<edbTimes, calls, mergeVars, units, today, mnemonic,
                   query_times, window, history>>
    /\ UNCHANGED <<mnemonic_info, all_conditions, statVars>>

\* Line 647: `if mnemonic_info is not None`.  mnemonic_info is a local of
\* run() (assigned at lines 667 and 670, after this line), and nothing has
\* assigned it: UnboundLocalError.  Lines 648-706 are never reached.
CheckMnemonicInfo ==
    /\ pc = "check_info"
    /\ pc' = "crashed"
    /\ error' = "UnboundLocalError"
    /\ UNCHANGED <<cacheVars, mergeVars, concVars, today, mnemonic,
                   query_times, window, window_results, history>>
    /\ UNCHANGED <<mnemonic_info, good_mnemonic_data, condVars, statVars>>

InitRun ==
    /\ CondIdle
    /\ StatIdle
    /\ edbTimes \in SUBSET Times
    /\ query_results = <<>>
    /\ calls = <<>>
    /\ MergeIdle
    /\ ConcIdle
    /\ RunIdle

NextRun ==
    \/ RunStart
    \/ NextMnemonic
    \/ RunEnd
    \/ ComputeQueryTimes
    \/ DiscardFuture
    \/ ProcessWindow
    \/ CheckMnemonicInfo

SpecRun == InitRun /\ [][NextRun]_vars

\* ------------------------------------------------------ claims on the run

RunOver == pc \in {"finished", "crashed"}

\* C8: every mnemonic the orchestrator starts reaches a terminal state, DONE
\* or SKIPPED (or it is aborted by a configuration error): once the run is
\* over, no started mnemonic is left in QUERY_PENDING or
\* PER_WINDOW_PROCESSING.  Stated for mnemonics whose windows so far all
\* returned without raising.
C8_StartedReachTerminal ==
    (/\ RunOver
     /\ window_results # <<>>
     /\ \A i \in 1..Len(window_results) : window_results[i] \in Returned)
    => \A i \in 1..Len(history) :
          \/ history[i] \in {"DONE", "SKIPPED"}
          \/ error = "NotImplementedError"

\* C9: when every window of a mnemonic produces zero qualifying data, the
\* mnemonic ends SKIPPED and the run raises no error for it.
C9_ZeroDataSkipped ==
    (/\ RunOver
     /\ window_results # <<>>
     /\ Len(window_results) = Len(query_times)
     /\ \A i \in 1..Len(window_results) : window_results[i] = "None")
    => /\ error = "none"
       /\ history[Len(history)] = "SKIPPED"

\* C10: a fetch, filter or aggregate failure in one window of a mnemonic is
\* not fatal: the windows after it are still processed.
C10_WindowFailureNotFatal ==
    (/\ RunOver
     /\ Len(query_times) >= 2
     /\ \E i \in 1..Len(window_results) :
           window_results[i] \notin Returned \cup {"NotImplementedError"})
    => /\ error = "none"
       /\ Len(window_results) = Len(query_times)

\* A mnemonic whose configuration find_all_changes rejects (lines 346-347):
\* "every_change" with more than one dependency.
Misconfigured(m) == m.telem_type = "every_change" /\ Len(m.dependency) > 1

\* C11: a configuration error raised while processing one mnemonic aborts
\* only that mnemonic: after a window of a misconfigured mnemonic has been
\* processed with every EDB query answered, run() has not ended with an
\* exception, so the other mnemonics of the file can still be processed.
C11_ConfigurationErrorAbortsOnlyMnemonic ==
    (/\ Len(history) >= 1
     /\ Misconfigured(mnemonic)
     /\ window_results # <<>>
     /\ \A i \in 1..Len(window_results) :
           window_results[i] # "RetrievalError")
    => pc # "crashed"

\* The windows run() has handed to get_mnemonic_info (line 645), in the
\* order of the calls: each call starts with the query of the target.
IsTargetQuery(q) == q.name = "TARGET"

ProcessedWindows == SelectSeq(edb_queries, IsTargetQuery)

PastDiscard ==
    /\ Len(history) >= 1
    /\ pc \in {"window", "check_info", "crashed"}
    /\ mnemonic.telem_type # "none"

ComputedWindows == AsSeq(QueryTimes(today, mnemonic.query_duration))

EndsByToday(w) == w.end <= today

\* C13: windows in the future relative to "now" are discarded before
\* processing begins: when a computed window ends after today, lines 631-635
\* raise nothing and the windows that remain are exactly the computed
\* windows ending at or before today.
C13_FutureWindowsDiscarded ==
    (/\ PastDiscard
     /\ \E i \in 1..Len(ComputedWindows) : ~EndsByToday(ComputedWindows[i]))
    => /\ error # "TypeError"
       /\ query_times = SelectSeq(ComputedWindows, EndsByToday)

\* C14: when the last recorded query time of a mnemonic is later than "now",
\* zero pending windows are computed, nothing is processed for the mnemonic
\* and no error is raised.
C14_LastQueryAfterNow ==
    (/\ PastDiscard
     /\ MostRecentSearch > today)
    => /\ query_times = <<>>
       /\ window_results = <<>>
       /\ error = "none"

\* The windows for which get_mnemonic_info returned data (line 655:
\* mnemonic_day_info is not None), in the order of the loop.
DataWindows ==
    SelectIdx(query_times,
              SortedSeq({i \in 1..Len(window_results) :
                            window_results[i] = "data"}))

\* C15: the accumulated result of a mnemonic is the concatenation, in window
\* order, of the results of every window that produced qualifying data: once
\* the run is over and some window has produced data, mnemonic_info holds
\* exactly these windows' results, each once.
C15_AccumulatedIsConcatenation ==
    (/\ RunOver
     /\ DataWindows # <<>>)
    => /\ mnemonic_info # "unbound"
       /\ mnemonic_info = DataWindows

\* ------------------------------------ filter_telemetry, lines 296-326

\* Lines 297-303 are past: one condition per dependency, and the target.
InitCond ==
    /\ all_conditions \in UNION {[1..Len(dep_list) -> Conditions] : dep_list \in DependencyLists \ {<<>>}}
    /\ target_data \in Series
    /\ full_condition = <<>>
    /\ extracted = <<>>
    /\ CacheIdle
    /\ MergeIdle
    /\ ConcIdle
    /\ RunIdle
    /\ StatIdle

\* Line 324.
CombineConditions ==
    /\ full_condition = <<>>
    /\ full_condition' = <<condition(all_conditions)>>
    /\ UNCHANGED <<all_conditions, target_data, extracted>>
    /\ UNCHANGED <<cacheVars, mergeVars, concVars, runVars, statVars>>

\* Line 325.
ExtractData ==
    /\ full_condition # <<>>
    /\ extracted = <<>>
    /\ extracted' = <<extract_data(full_condition[1], target_data, NothingExtracted)>>
    /\ UNCHANGED <<all_conditions, target_data, full_condition>>
    /\ UNCHANGED <<cacheVars, mergeVars, concVars, runVars, statVars>>

NextCond ==
    \/ CombineConditions
    \/ ExtractData

SpecCond == InitCond /\ [][NextCond]_vars

\* ------------------------------------------------- claims on the filtering

Ascending(intervals) ==
    \A i \in 1..(Len(intervals) - 1) :
        /\ intervals[i].start < intervals[i + 1].start
        /\ intervals[i].end <= intervals[i + 1].start

\* C16: combining several interval lists gives exactly the set intersection
\* of the conditions, as a list of intervals that is ascending by start time
\* and pairwise non-overlapping.
C16_CombineIsIntersection ==
    full_condition # <<>>
    => /\ \A t \in Times :
             t \in Covered(full_condition[1])
             <=> \A i \in 1..Len(all_conditions) :
                    t \in Covered(all_conditions[i])
       /\ \A i \in 1..Len(full_condition[1]) :
             full_condition[1][i].start < full_condition[1][i].end
       /\ Ascending(full_condition[1])

C16_Witness ==
    /\ full_condition # <<>>
    /\ Len(all_conditions) = 2
    /\ Len(full_condition[1]) >= 2
    /\ full_condition[1] # all_conditions[1]
    /\ full_condition[1] # all_conditions[2]

\* C17: intersecting an interval list A with the always-true condition, one
\* interval spanning the full requested range, returns A unchanged, on
\* either side.
C17_AlwaysTrueIsNeutral ==
    (/\ full_condition # <<>>
     /\ Len(all_conditions) = 2
     /\ \E i \in 1..2 : all_conditions[i] = AlwaysTrue)
    => \E i \in 1..2 :
          /\ all_conditions[i] = AlwaysTrue
          /\ full_condition[1] = all_conditions[3 - i]

C17_Witness ==
    /\ full_condition # <<>>
    /\ Len(all_conditions) = 2
    /\ all_conditions[2] = AlwaysTrue
    /\ Len(all_conditions[1]) >= 2
    /\ all_conditions[1][1].end = all_conditions[1][2].start
    /\ full_condition[1] = all_conditions[1]

\* The indices of the samples of the target whose timestamp lies in the
\* union of the intervals of the combined condition.
IndicesInUnion ==
    {i \in 1..Len(target_data) :
        target_data[i].t \in Covered(full_condition[1])}

\* C20: the extracted series is an order-preserving sub-sequence of the
\* target with the original values: it is no longer than the target, every
\* extracted timestamp lies in the union of the intervals, and every sample
\* of the target whose timestamp lies in some interval is extracted.
C20_ExtractIsSubsequence ==
    extracted # <<>>
    => LET out == extracted[1].extracted_data
       IN /\ Len(out) <= Len(target_data)
          /\ \A k \in 1..Len(out) : out[k].t \in Covered(full_condition[1])
          /\ \A i \in IndicesInUnion :
                \E k \in 1..Len(out) : out[k] = target_data[i]
          /\ out = SelectIdx(target_data, SortedSeq(IndicesInUnion))

C20_Witness ==
    /\ extracted # <<>>
    /\ Len(full_condition[1]) >= 2
    /\ Len(extracted[1].extracted_data) >= 2
    /\ Len(extracted[1].extracted_data) < Len(target_data)
    /\ Len(extracted[1].block_indexes) >= 2

\* A window of a mnemonic without dependencies has been handed to
\* get_mnemonic_info and the EDB has answered the query of the target.
NoDependencyWindowFetched ==
    /\ pc \in {"check_info", "crashed"}
    /\ window_results # <<>>
    /\ mnemonic.dependency = <<>>
    /\ window_results[Len(window_results)] # "RetrievalError"

\* C18: a mnemonic with an empty dependency list is treated as always true:
\* filtering keeps every fetched sample of the target unchanged, no
\* dependency is fetched, and the block boundaries of the result are [0].
C18_NoDependenciesKeepAll ==
    NoDependencyWindowFetched
    => /\ good_mnemonic_data # <<>>
       /\ good_mnemonic_data[1].data =
             get_mnemonic(mnemonic.name, query_times[window].start,
                          query_times[window].end)
       /\ good_mnemonic_data[1].blocks = <<0>>
       /\ \A i \in 1..Len(edb_queries) : IsTargetQuery(edb_queries[i])
       /\ query_results = <<>>

C18_Witness ==
    /\ NoDependencyWindowFetched
    /\ good_mnemonic_data # <<>>
    /\ Len(good_mnemonic_data[1].data) >= 2

\* C19: when no time satisfies all dependency conditions of a window,
\* filtering that window is not an error: the target has samples, the
\* extraction holds none of them, and get_mnemonic_info reports the window
\* as having no data (it returns None, no statistics computed) without
\* ending the run.
C19_EmptyFilterIsNoData ==
    (/\ pc \in {"check_info", "crashed"}
     /\ window_results # <<>>
     /\ extracted # <<>>
     /\ target_data # <<>>
     /\ extracted[1].extracted_data = <<>>)
    => /\ window_results[Len(window_results)] = "None"
       /\ error # "ValueError"

\* ------------------------------------------ claims on the block boundaries

\* The interval of the combined condition that holds the tick t.
IntervalIndex(t) ==
    CHOOSE k \in 1..Len(full_condition[1]) :
        full_condition[1][k].start <= t /\ t < full_condition[1][k].end

\* blocks starts with 0 and is strictly ascending.
AscendingFromZero(blocks) ==
    /\ blocks # <<>>
    /\ blocks[1] = 0
    /\ \A k \in 1..(Len(blocks) - 1) : blocks[k] < blocks[k + 1]

\* Every entry of blocks is an index (from 0) of a sample of data.
ValidIndices(blocks, data) ==
    \A k \in 1..Len(blocks) : blocks[k] \in 0..(Len(data) - 1)

\* The entries of blocks after the first are exactly the indices (from 0)
\* of the extracted samples that lie in another interval than the sample
\* before them.
BoundariesAtRuns(blocks, data) ==
    \A i \in 1..(Len(data) - 1) :
        (\E k \in 2..Len(blocks) : blocks[k] = i)
        <=> IntervalIndex(data[i + 1].t) # IntervalIndex(data[i].t)

\* C21 as stated: the block boundaries recorded for a filtered series are
\* always an ascending list of valid indices of that series whose first
\* element is 0.
C21_BlocksValidIndices ==
    /\ extracted # <<>>
       => /\ AscendingFromZero(extracted[1].block_indexes)
          /\ ValidIndices(extracted[1].block_indexes,
                          extracted[1].extracted_data)
    /\ good_mnemonic_data # <<>>
       => /\ AscendingFromZero(good_mnemonic_data[1].blocks)
          /\ ValidIndices(good_mnemonic_data[1].blocks,
                          good_mnemonic_data[1].data)

\* C21 (amended): the block boundaries recorded for a filtered series are an
\* ascending list whose first element is 0.  When the series holds a sample,
\* every boundary is a valid index of it and each later boundary is the
\* index of the first filtered sample of the next interval's run; when the
\* series is empty the list is [0], which is no index of the series.
C21_BlocksOfFilteredSeries ==
    /\ extracted # <<>>
       => LET blocks == extracted[1].block_indexes
              data == extracted[1].extracted_data
          IN /\ AscendingFromZero(blocks)
             /\ IF data = <<>> THEN blocks = <<0>>
                ELSE /\ ValidIndices(blocks, data)
                     /\ BoundariesAtRuns(blocks, data)
    /\ good_mnemonic_data # <<>>
       => LET blocks == good_mnemonic_data[1].blocks
              data == good_mnemonic_data[1].data
          IN /\ blocks = <<0>>
             /\ data # <<>> => ValidIndices(blocks, data)

C21_Witness ==
    /\ extracted # <<>>
    /\ Len(extracted[1].block_indexes) >= 2
    /\ Len(extracted[1].extracted_data) >= 2

\* ---------------------------------------------- claims on every_change

\* A dependency of the mnemonic has been queried (get_dependency_data).
DependencyQueried ==
    \E i \in 1..Len(edb_queries) : ~IsTargetQuery(edb_queries[i])

\* C22: for a mnemonic in every_change mode with more than one dependency,
\* the configuration error is raised before any computation: once a window
\* of the mnemonic has been handed to get_mnemonic_info, the error raised is
\* the NotImplementedError of line 347, and no dependency has been fetched
\* and nothing has been filtered before it.
C22_ConfigurationErrorFirst ==
    (/\ Len(history) >= 1
     /\ Misconfigured(mnemonic)
     /\ window_results # <<>>
     /\ \A i \in 1..Len(window_results) :
           window_results[i] # "RetrievalError")
    => /\ error = "NotImplementedError"
       /\ ~DependencyQueried
       /\ extracted = <<>>

\* --------------------------------------- astropy.stats.sigma_clipped_stats

RECURSIVE Sum(_)
Sum(values) == IF values = <<>> THEN 0 ELSE values[1] + Sum(Tail(values))

SumOfSquares(values) == Sum([i \in 1..Len(values) |-> values[i] * values[i]])

RECURSIVE InsertByValue(_, _)
InsertByValue(sorted, x) ==
    IF sorted = <<>> THEN <<x>>
    ELSE IF x < sorted[1] THEN <<x>> \o sorted
    ELSE <<sorted[1]>> \o InsertByValue(Tail(sorted), x)

RECURSIVE SortByValue(_)
SortByValue(values) ==
    IF values = <<>> THEN <<>>
    ELSE InsertByValue(SortByValue(Tail(values)), values[1])

\* Twice the median of a non-empty list (the median of an even number of
\* values is the mean of the two in the middle).
TwiceMedian(values) ==
    LET sorted == SortByValue(values)
        n == Len(values)
    IN IF n % 2 = 1 THEN 2 * sorted[(n + 1) \div 2]
       ELSE sorted[n \div 2] + sorted[n \div 2 + 1]

\* n * n times the variance (np.std: about the mean, divisor n).
ScaledVariance(values) ==
    Len(values) * SumOfSquares(values) - Sum(values) * Sum(values)

\* A clipping pass that keeps the values within one standard deviation of
\* the median, whatever sigma is.
ClipOnceWithoutSigma(values, sigma) ==
    SelectIdx(values, SortedSeq({i \in 1..Len(values) :
        (2 * values[i] - TwiceMedian(values))
        * (2 * values[i] - TwiceMedian(values))
        * Len(values) * Len(values)
        <= 4 * ScaledVariance(values)}))

\* One pass of the clipping: the values within sigma standard deviations of
\* the median are kept, |x - median| <= sigma * std.
ClipOnce(values, sigma) ==
    SelectIdx(values, SortedSeq({i \in 1..Len(values) :
        (2 * values[i] - TwiceMedian(values))
        * (2 * values[i] - TwiceMedian(values))
        * Len(values) * Len(values)
        <= 4 * sigma * sigma * ScaledVariance(values)}))

RECURSIVE SigmaClip(_, _, _)
SigmaClip(values, sigma, iters) ==
    IF iters = 0 \/ values = <<>> THEN values
    ELSE LET kept == ClipOnce(values, sigma)
         IN IF kept = values THEN values
            ELSE SigmaClip(kept, sigma, iters - 1)

\* sigma_clipped_stats(values, sigma=sigma), with the defaults of astropy
\* (centre: median, at most 5 passes): the values its mean, median and
\* standard deviation are taken over.
sigma_clipped_stats(values, sigma) == SigmaClip(values, sigma, 5)

\* ---------------------------------------------------- find_all_changes

\* The dependency series a call can find in self.query_results.
MaxSamples == 10

DepValues == {0, 10}

DependencySeries == UNION {[1..n -> DepValues] : n \in 0..MaxSamples}

Abs(x) == IF x < 0 THEN -x ELSE x

\* Line 353: np.abs(data[1:] - data[0:-1]).
FirstDiffs(values) ==
    [i \in 1..(Len(values) - 1) |-> Abs(values[i + 1] - values[i])]

\* Lines 354-355 and 369: the indices (from 0) of the samples that follow a
\* difference of at least threshold * full_dev, in ascending order.  The
\* standard deviation of no value at all is nan, and nothing is >= nan.
Jumps(values, threshold) ==
    LET first_diffs == FirstDiffs(values)
        kept == sigma_clipped_stats(first_diffs, 3)
    IN SortedSeq({i \in 1..Len(first_diffs) :
          /\ kept # <<>>
          /\ first_diffs[i] * first_diffs[i] * Len(kept) * Len(kept)
             >= threshold * threshold * ScaledVariance(kept)})

\* Lines 381-387: one entry for each pair of consecutive jumps.
DependencyBlocks(jumps) ==
    [i \in 1..(Len(jumps) - 1) |-> [from |-> jumps[i], to |-> jumps[i + 1]]]

\* find_all_changes(mnem_data, dep_list, threshold): the exception it ends
\* with or "ok", the jumps, and the result lists: the four lists of the
\* dependency have one entry per dependency block, the four lists of the
\* target one entry per pass of the loop of line 394.  That loop reads
\* jump_times[i + 1] in every pass, so its last pass raises IndexError.
find_all_changes(dep_count, values, threshold) ==
    IF dep_count > 1
    THEN [outcome |-> "NotImplementedError", jumps |-> <<>>,
          all_dep_means |-> <<>>, all_means |-> <<>>]
    ELSE IF dep_count = 0
    THEN [outcome |-> "IndexError", jumps |-> <<>>,
          all_dep_means |-> <<>>, all_means |-> <<>>]
    ELSE LET jumps == Jumps(values, threshold)
         IN [outcome |-> IF jumps = <<>> THEN "ok" ELSE "IndexError",
             jumps |-> jumps,
             all_dep_means |-> DependencyBlocks(jumps),
             all_means |-> DependencyBlocks(jumps)]

\* The monitor object before a call of find_all_changes: the dependency
\* list of the mnemonic and the values saved for its first dependency.
InitChanges ==
    /\ change_dep_count \in {Len(dependency) : dependency \in DependencyLists}
    /\ change_dep_values \in DependencySeries
    /\ changes = <<>>
    /\ CacheIdle
    /\ MergeIdle
    /\ ConcIdle
    /\ RunIdle
    /\ CondIdle
    /\ ClipIdle
    /\ TimedIdle
    /\ OtherIdle

\* A call of find_all_changes with the default threshold (line 335).
FindAllChanges ==
    /\ changes = <<>>
    /\ changes' = <<find_all_changes(change_dep_count, change_dep_values, 3)>>
    /\ UNCHANGED <<change_dep_count, change_dep_values, clipVars, timedVars>>
    /\ UNCHANGED otherVars
    /\ UNCHANGED <<cacheVars, mergeVars, concVars, runVars, condVars>>

SpecChanges == InitChanges /\ [][FindAllChanges]_vars

\* The call was made for a mnemonic with one dependency.
OneDependencyCall == changes # <<>> /\ change_dep_count = 1

\* The groups of a series of n samples with the given group starts: the
\* index ranges between consecutive starts, the start and the end of the
\* series being boundaries as well.
GroupsOf(n, starts) ==
    LET bounds == <<0>> \o starts \o <<n>>
    IN [i \in 1..(Len(bounds) - 1) |-> [from |-> bounds[i], to |-> bounds[i + 1]]]

\* C23: in every_change grouping the groups partition the dependency
\* series: for a series with at least one sample the groups are the index
\* ranges between consecutive group starts, with the start and the end of
\* the series as boundaries, so that zero flagged changes give one group
\* over the whole series.
C23_GroupsPartitionSeries ==
    (OneDependencyCall /\ change_dep_values # <<>>)
    => /\ changes[1].outcome = "ok"
       /\ changes[1].all_dep_means =
             GroupsOf(Len(change_dep_values), changes[1].jumps)

\* C24: for the dependency values [0,0,0,10,10,10] and threshold 3 the
\* detector finds exactly one change point, at index 3, and two groups of
\* three samples each.
C24_OneChangePointAtThree ==
    (OneDependencyCall /\ change_dep_values = <<0, 0, 0, 10, 10, 10>>)
    => /\ changes[1].jumps = <<3>>
       /\ changes[1].all_dep_means =
             <<[from |-> 0, to |-> 3], [from |-> 3, to |-> 6]>>

\* C25: the result lists of every_change are parallel: when at least one
\* change is flagged the call returns, and the lists of the dependency and
\* the lists of the target have the same length, one entry per group.
C25_ParallelResultLists ==
    (OneDependencyCall /\ changes[1].jumps # <<>>)
    => /\ changes[1].outcome = "ok"
       /\ Len(changes[1].all_dep_means) = Len(changes[1].all_means)
       /\ Len(changes[1].all_means) = Len(changes[1].jumps) + 1

\* ------------------------------------ sigma_clipped_stats on its own

ClipValues == {1, 100}

ClipInputs == UNION {[1..n -> ClipValues] : n \in 0..MaxSamples}

InitClip ==
    /\ clip_data \in ClipInputs
    /\ clipped = <<>>
    /\ CacheIdle
    /\ MergeIdle
    /\ ConcIdle
    /\ RunIdle
    /\ CondIdle
    /\ ChangeIdle
    /\ TimedIdle
    /\ OtherIdle

\* Line 266: sigma_clipped_stats(values of a bin, sigma=sigma), sigma=3.
SigmaClippedStats ==
    /\ clipped = <<>>
    /\ clipped' = <<sigma_clipped_stats(clip_data, 3)>>
    /\ UNCHANGED <<clip_data, changeVars, timedVars, otherVars>>
    /\ UNCHANGED <<cacheVars, mergeVars, concVars, runVars, condVars>>

SpecClip == InitClip /\ [][SigmaClippedStats]_vars

\* C26 as stated: the statistics of [1,1,1,1,100] with sigma 3 leave the
\* value 100 out, so that the mean is 1.
C26_OutlierExcluded ==
    (clipped # <<>> /\ clip_data = <<1, 1, 1, 1, 100>>)
    => clipped[1] = <<1, 1, 1, 1>>

\* C26 (amended): the statistics of [1,1,1,1,100] with sigma 3 do not leave
\* the value 100 out (it lies within 3 standard deviations, 3 * 39.6, of
\* the median 1): they are taken over all five values, whose mean is
\* 104 / 5 = 20.8.
C26_OutlierKept ==
    (clipped # <<>> /\ clip_data = <<1, 1, 1, 1, 100>>)
    => /\ clipped[1] = clip_data
       /\ Sum(clipped[1]) = 104
       /\ Len(clipped[1]) = 5

C26_Witness ==
    /\ clipped # <<>>
    /\ clip_data = <<1, 1, 1, 1, 100>>
    /\ 5 * Sum(clipped[1]) = 104 * Len(clipped[1])

\* ------------------------------------------------------ calc_timed_stats

\* The ticks at which a filtered series can hold a sample.
MaxDate == 5

\* mnem_data.data["dates"]: ascending ticks.
DateLists == {SortedSeq(S) : S \in SUBSET (0..MaxDate)}

\* mnem_data.blocks for a series of n samples: 0 and, in ascending order,
\* the indices (from 0) of the first samples of the later blocks.
BlockLists(n) == {<<0>> \o SortedSeq(S) : S \in SUBSET (1..(n - 1))}

\* The sample with index i, indices counted from 0 as in the code.
DateAt(dates, i) == dates[i + 1]

\* Lines 260-262 for block i (from 1): np.arange(block_min_time,
\* block_max_time + minimal_delta, bintime), where block_max_time is the
\* date of the first sample of the next block, and the bins between
\* consecutive bin times (line 265).
BinsOfBlock(dates, blocks, bintime, i) ==
    LET block_min_time == DateAt(dates, blocks[i])
        block_max_time == DateAt(dates, blocks[i + 1])
        bin_times == [k \in 1..((block_max_time - block_min_time) \div bintime + 1) |->
                         block_min_time + (k - 1) * bintime]
    IN [b \in 1..(Len(bin_times) - 1) |->
           [start |-> bin_times[b], end |-> bin_times[b + 1]]]

\* The loop of line 259, range(len(mnem_data.blocks) - 1), from block i on.
RECURSIVE TimedBins(_, _, _, _)
TimedBins(dates, blocks, bintime, i) ==
    IF i > Len(blocks) - 1 THEN <<>>
    ELSE BinsOfBlock(dates, blocks, bintime, i)
         \o TimedBins(dates, blocks, bintime, i + 1)

\* Line 265: the indices of the samples of the whole series inside a bin.
GoodPoints(dates, bin) ==
    {i \in 0..(Len(dates) - 1) :
        bin.start <= DateAt(dates, i) /\ DateAt(dates, i) < bin.end}

\* calc_timed_stats(mnem_data, bintime): the bins, and the returned lists:
\* all_means (with all_meds and all_stdevs) holds one entry per bin, here
\* the samples the statistics are taken over (none: nan), and all_times one
\* entry per bin, the width of the bin (twice the value of line 263).
calc_timed_stats(dates, blocks, bintime) ==
    LET bins == TimedBins(dates, blocks, bintime, 1)
    IN [bins |-> bins,
        all_means |-> [b \in 1..Len(bins) |-> GoodPoints(dates, bins[b])],
        all_times |-> [b \in 1..Len(bins) |-> bins[b].end - bins[b].start]]

InitTimed ==
    /\ timed_dates \in DateLists
    /\ timed_blocks \in BlockLists(Len(timed_dates))
    /\ timed_bintime \in 1..DayTicks
    /\ timed_stats = <<>>
    /\ CacheIdle
    /\ MergeIdle
    /\ ConcIdle
    /\ RunIdle
    /\ CondIdle
    /\ ChangeIdle
    /\ ClipIdle
    /\ OtherIdle

CalcTimedStats ==
    /\ timed_stats = <<>>
    /\ timed_stats' = <<calc_timed_stats(timed_dates, timed_blocks, timed_bintime)>>
    /\ UNCHANGED <<timed_dates, timed_blocks, timed_bintime, changeVars, clipVars>>
    /\ UNCHANGED otherVars
    /\ UNCHANGED <<cacheVars, mergeVars, concVars, runVars, condVars>>

SpecTimed == InitTimed /\ [][CalcTimedStats]_vars

\* The block (from 1) of the sample with index i (from 0).
BlockOfIndex(i) ==
    CHOOSE k \in 1..Len(timed_blocks) :
        /\ timed_blocks[k] <= i
        /\ k < Len(timed_blocks) => i < timed_blocks[k + 1]

\* The dates of the first and of the last sample of block k.
BlockFirstDate(k) == DateAt(timed_dates, timed_blocks[k])

BlockLastDate(k) ==
    IF k < Len(timed_blocks)
    THEN DateAt(timed_dates, timed_blocks[k + 1] - 1)
    ELSE DateAt(timed_dates, Len(timed_dates) - 1)

\* C28: time_interval binning restarts its bins at every block boundary and
\* no bin straddles a gap between blocks: every block, the last one
\* included, has a bin starting at its first sample, every sample lies in a
\* bin, every bin starts inside the time span of a block, and the samples
\* of a bin all belong to that one block.
C28_BinsRestartAtBlocks ==
    (timed_stats # <<>> /\ timed_dates # <<>>)
    => LET bins == timed_stats[1].bins
       IN /\ \A k \in 1..Len(timed_blocks) :
                \E b \in 1..Len(bins) : bins[b].start = BlockFirstDate(k)
          /\ \A i \in 0..(Len(timed_dates) - 1) :
                \E b \in 1..Len(bins) : i \in GoodPoints(timed_dates, bins[b])
          /\ \A b \in 1..Len(bins) :
                \E k \in 1..Len(timed_blocks) :
                   /\ BlockFirstDate(k) <= bins[b].start
                   /\ bins[b].start <= BlockLastDate(k)
                   /\ \A i \in GoodPoints(timed_dates, bins[b]) :
                         BlockOfIndex(i) = k

\* ------------------------------ claims on the statistics of a window

\* The fetched data of a window of a mnemonic without dependencies, kept
\* whole (line 504), holds a sample.
UnfilteredWindowData ==
    /\ NoDependencyWindowFetched
    /\ good_mnemonic_data # <<>>
    /\ good_mnemonic_data[1].data # <<>>

\* The calendar day of a tick.
DayOf(t) == t \div DayTicks

\* C27: every binning policy returns its parallel lists: for a window with
\* data, whichever of daily_means, block_means and time_interval the
\* mnemonic asks for, the statistics are computed and get_mnemonic_info
\* returns the data.
C27_BinningPoliciesReturn ==
    (/\ UnfilteredWindowData
     /\ mnemonic.telem_type \in {"daily_means", "block_means", "time_interval"})
    => window_results[Len(window_results)] = "data"

\* C29: daily_means over data that spans two calendar days, with a sample
\* on each, computes its bins (two of them): the statistics raise nothing.
C29_DailyMeansTwoDays ==
    (/\ UnfilteredWindowData
     /\ mnemonic.telem_type = "daily_means"
     /\ \E i, j \in 1..Len(good_mnemonic_data[1].data) :
           DayOf(good_mnemonic_data[1].data[j].t)
           = DayOf(good_mnemonic_data[1].data[i].t) + 1)
    => /\ window_results[Len(window_results)] \in Returned
       /\ error # "AttributeError"

\* C30: block_means gives one bin per block, also for the single block of
\* the boundaries [0]: for a window with data and blocks [0] the one bin is
\* computed, so the statistics end without an exception.
C30_BlockMeansSingleBlock ==
    (/\ UnfilteredWindowData
     /\ mnemonic.telem_type = "block_means"
     /\ good_mnemonic_data[1].blocks = <<0>>)
    => pc # "crashed"

\* -------------------- EdbMnemonic.__mul__ (line 694's `*`) and lines 685-698

\* The latest tick of the series that are combined.
MaxCombineTime == 3

CombineTimes == 0..MaxCombineTime

\* The series that are combined: ascending in time, one sample per tick;
\* the values of the left operand and those of the right operand.
SeriesOver(values) ==
    UNION {{[i \in 1..Len(SortedSeq(S)) |->
                [t |-> SortedSeq(S)[i], v |-> f[SortedSeq(S)[i]]]] :
            f \in [S -> values]} : S \in SUBSET CombineTimes}

LeftValues == {2, 4}

RightValues == {3, 5}

\* The time a series covers: from its first to its last sample.
Coverage(series) ==
    IF series = <<>> THEN {}
    ELSE series[1].t .. series[Len(series)].t

\* The overlap of two series in time.
Overlap(a, b) == Coverage(a) \cap Coverage(b)

\* The value of b at time t of its coverage, interpolated linearly between
\* the samples next to t, as the fraction num / den: the last sample at or
\* before t and the first one at or after it.
Interpolate(b, t) ==
    LET lo == CHOOSE i \in 1..Len(b) :
                 /\ b[i].t <= t
                 /\ \A j \in 1..Len(b) : b[j].t <= t => j <= i
        hi == CHOOSE i \in 1..Len(b) :
                 /\ b[i].t >= t
                 /\ \A j \in 1..Len(b) : b[j].t >= t => j >= i
    IN IF lo = hi
       THEN [num |-> b[lo].v, den |-> 1]
       ELSE [num |-> b[lo].v * (b[hi].t - t) + b[hi].v * (t - b[lo].t),
             den |-> b[hi].t - b[lo].t]

\* The value of b at time t taken from the nearest sample at or before t, and
\* from the first sample when there is none: no interpolation.
PreviousSample(b, t) ==
    LET before == {i \in 1..Len(b) : b[i].t <= t}
    IN [num |-> IF before = {} THEN b[1].v ELSE b[Max(before)].v, den |-> 1]

\* a * b with every timestamp of a kept: the value of b outside its coverage
\* is the value of its nearest sample.
mul_extrapolated(a, b) ==
    IF Overlap(a, b) = {} THEN [outcome |-> "InsufficientOverlapError",
                                data |-> <<>>]
    ELSE [outcome |-> "ok",
          data |-> [i \in 1..Len(a) |->
                      LET y == IF a[i].t \in Coverage(b)
                               THEN Interpolate(b, a[i].t)
                               ELSE PreviousSample(b, a[i].t)
                      IN [t |-> a[i].t, num |-> a[i].v * y.num,
                          den |-> y.den]]]

\* a * b: the samples of a inside the overlap of a and b, each multiplied by
\* the value of b interpolated at its time; an empty overlap is an error.
\* The values are fractions num / den.
mul(a, b) ==
    IF Overlap(a, b) = {} THEN [outcome |-> "InsufficientOverlapError",
                                data |-> <<>>]
    ELSE LET kept == SelectIdx(a, SortedSeq({i \in 1..Len(a) :
                                              a[i].t \in Overlap(a, b)}))
         IN [outcome |-> "ok",
             data |-> [i \in 1..Len(kept) |->
                         LET y == Interpolate(b, kept[i].t)
                         IN [t |-> kept[i].t, num |-> kept[i].v * y.num,
                             den |-> y.den]]]

\* Line 687: combine_mnemonic = mnemonic["plot_data"].split('*')[1], a string.
CombineMnemonic(plot_data) == [kind |-> "str", value |-> plot_data]

\* Line 425, dependency["name"]: get_dependency_data takes a dependency of
\* the mnemonic file, a dictionary; a string indexed by "name" raises
\* TypeError.
DependencyName(dependency) ==
    IF dependency.kind = "dict"
    THEN [outcome |-> "ok", name |-> dependency.value]
    ELSE [outcome |-> "TypeError", name |-> ""]

\* Lines 685-698 from a bound mnemonic_info: line 688 hands the string of
\* line 687 to get_dependency_data, which raises at line 425; after it
\* line 689 names EdbMnemonic, which the module does not import.  Neither
\* the product of line 694 nor the plot of line 697 is reached.
PlotOfCombined(plot_data) ==
    LET n == DependencyName(CombineMnemonic(plot_data))
    IN IF n.outcome # "ok" THEN [outcome |-> n.outcome, plotted |-> <<>>]
       ELSE [outcome |-> "NameError", plotted |-> <<>>]

InitCombine ==
    /\ combine_info \in SeriesOver(LeftValues)
    /\ combine_obj \in SeriesOver(RightValues)
    /\ product = <<>>
    /\ plot_outcome = "none"
    /\ plotted = <<>>
    /\ ScopeIdle
    /\ PipeIdle
    /\ TaskIdle
    /\ CacheIdle
    /\ MergeIdle
    /\ ConcIdle
    /\ RunIdle
    /\ CondIdle
    /\ ChangeIdle
    /\ ClipIdle
    /\ TimedIdle

\* mnemonic_info * combine_obj
Multiply ==
    /\ product = <<>>
    /\ product' = <<mul(combine_info, combine_obj)>>
    /\ UNCHANGED <<combine_info, combine_obj, plot_outcome, plotted>>
    /\ UNCHANGED <<scopeVars, pipeVars, taskVars>>
    /\ UNCHANGED <<cacheVars, mergeVars, concVars, runVars, condVars>>
    /\ UNCHANGED <<changeVars, clipVars, timedVars>>

\* Lines 685-698 for the entry "*DEP_B".
PlotCombined ==
    /\ plot_outcome = "none"
    /\ LET r == PlotOfCombined("*DEP_B")
       IN /\ plot_outcome' = r.outcome
          /\ plotted' = plotted \o r.plotted
    /\ UNCHANGED <<combine_info, combine_obj, product, scopeVars>>
    /\ UNCHANGED <<pipeVars, taskVars>>
    /\ UNCHANGED <<cacheVars, mergeVars, concVars, runVars, condVars>>
    /\ UNCHANGED <<changeVars, clipVars, timedVars>>

NextCombine == Multiply \/ PlotCombined

SpecCombine == InitCombine /\ [][NextCombine]_vars

\* The sample of a series at time t.
SampleAt(series, t) == series[CHOOSE i \in 1..Len(series) : series[i].t = t]

\* The samples of b next to time t of its coverage: the last one at or
\* before t, the first one at or after t.
Below(b, t) == SampleAt(b, Max({u \in TimesOf(b) : u <= t}))
Above(b, t) == SampleAt(b, Min({u \in TimesOf(b) : u >= t}))

\* C31: the product of a and b holds exactly the timestamps of a that lie in
\* the time b covers, in the order of a (nothing is extrapolated); at a
\* timestamp where b has a sample the value is the product of the two
\* values, and between two samples of b it is the value of a times the value
\* on the straight line through them; [(t0,2),(t1,4)] times [(t0,3),(t1,5)]
\* is [(t0,6),(t1,20)].
C31_ProductOnOverlap ==
    (product # <<>> /\ product[1].outcome = "ok")
    => LET a == combine_info
           b == combine_obj
           out == product[1].data
       IN /\ [i \in 1..Len(out) |-> out[i].t]
             = SortedSeq({t \in TimesOf(a) : t \in Coverage(b)})
          /\ \A i \in 1..Len(out) :
                LET t == out[i].t
                    x == SampleAt(a, t).v
                    lo == Below(b, t)
                    hi == Above(b, t)
                IN /\ out[i].den > 0
                   /\ t \in TimesOf(b)
                      => out[i].num = x * SampleAt(b, t).v * out[i].den
                   /\ (out[i].num - x * lo.v * out[i].den) * (hi.t - lo.t)
                      = x * out[i].den * (hi.v - lo.v) * (t - lo.t)
          /\ (/\ a = <<[t |-> 0, v |-> 2], [t |-> 1, v |-> 4]>>
              /\ b = <<[t |-> 0, v |-> 3], [t |-> 1, v |-> 5]>>)
             => out = <<[t |-> 0, num |-> 6, den |-> 1],
                        [t |-> 1, num |-> 20, den |-> 1]>>

\* A product that drops a timestamp of a outside the time b covers and
\* interpolates b between two of its samples.
C31_Witness ==
    /\ product # <<>>
    /\ combine_info = <<[t |-> 0, v |-> 2], [t |-> 2, v |-> 4]>>
    /\ combine_obj = <<[t |-> 1, v |-> 3], [t |-> 3, v |-> 5]>>
    /\ product[1].outcome = "ok"
    /\ product[1].data = <<[t |-> 2, num |-> 32, den |-> 2]>>

HasStar(plot_data) == plot_data \in {"*DEP_B"}

\* The entries that lines 681 and 685 both turn down, left to line 701.
MalformedPlotData(m) == m.plot_data # "nominal" /\ ~HasStar(m.plot_data)

\* C33: a mnemonic whose plot_data entry is neither "nominal" nor
\* "*<mnemonic>" is turned down with an error that ends this mnemonic only:
\* when its windows were processed without an exception, run() does not end
\* with an exception either, so the mnemonics after it are still processed.
C33_MalformedPlotDataAbortsOnlyMnemonic ==
    (/\ Len(history) >= 1
     /\ MalformedPlotData(mnemonic)
     /\ window_results # <<>>
     /\ \A i \in 1..Len(window_results) : window_results[i] \in Returned)
    => pc # "crashed"

\* ------------------------------------- the query results across two runs

\* run() has returned; the same instance is asked to run once more.
CallAgain ==
    /\ pc = "finished"
    /\ pc' = "idle"
    /\ UNCHANGED <<cacheVars, mergeVars, concVars, today, mnemonic,
                   query_times, window, window_results, error, history>>
    /\ UNCHANGED <<mnemonic_info, good_mnemonic_data, condVars, statVars>>

\* A call of get_dependency_data on the instance, before, in or between its
\* runs; of the call only the name and whether the saved data served it
\* (no query of the EDB) are kept.
CallGetDependencyData ==
    /\ \E name \in Names, starttime \in Times, endtime \in Times,
          remote_ok \in BOOLEAN :
         /\ starttime <= endtime
         /\ LET r == get_dependency_data(query_results, name, starttime,
                                         endtime, remote_ok)
            IN /\ query_results' = r.cache
               /\ run_served' = run_served \cup
                     {[name |-> name,
                       from_saved |-> r.outcome = "ok" /\ r.fetched = <<>>]}
    /\ UNCHANGED <<edbTimes, calls, earlier_saved, mergeVars, concVars,
                   runVars, condVars>>
    /\ UNCHANGED <<changeVars, clipVars, timedVars, combineVars, pipeVars>>
    /\ UNCHANGED taskVars

\* One monitor object over an EDB with a sample at every tick.
InitScope ==
    /\ edbTimes = Times
    /\ query_results = <<>>
    /\ calls = <<>>
    /\ MergeIdle
    /\ ConcIdle
    /\ RunIdle
    /\ CondIdle
    /\ StatIdle

NextScope ==
    \/ RunStart
    \/ CallGetDependencyData
    \/ RunEnd
    \/ CallAgain

SpecScope == InitScope /\ [][NextScope]_vars

\* The names for which a call since the latest start of run() went to the
\* EDB.
QueriedInRun == {c.name : c \in {d \in run_served : ~d.from_saved}}

\* C34: the saved query results belong to one run: a run starts with none,
\* so every saved series was fetched by a call of this run, and a call that
\* is served from the saved data is served what this run fetched, never a
\* series that an earlier run saved.
C34_CacheScopedToRun ==
    /\ DOMAIN query_results \subseteq QueriedInRun
    /\ \A c \in run_served : c.from_saved => c.name \in QueriedInRun

\* A run that started when the instance held a saved series of DEP_A, and
\* whose first call for DEP_A went to the EDB again.
C34_Witness ==
    /\ pc = "next_mnemonic"
    /\ "DEP_A" \in earlier_saved
    /\ run_served = {[name |-> "DEP_A", from_saved |-> FALSE]}
    /\ "DEP_A" \in DOMAIN query_results

\* ----------------------------------------- the saved data and the EDB agree

\* C35: the saved query results are transparent: whatever a call of
\* get_dependency_data returns, from the saved data or from a new query, is
\* what the EDB holds for the mnemonic in the requested range, the samples
\* at the two ends of the range included.
C35_CacheTransparent ==
    \A i \in 1..Len(calls) :
        calls[i].outcome = "ok"
        => calls[i].value = get_mnemonic(calls[i].name, calls[i].start,
                                         calls[i].end)

\* ------------------------------------------- claims on the query windows

\* The windows of the current mnemonic have been computed (lines 598-629
\* are past).
WindowsComputed ==
    /\ Len(history) >= 1
    /\ pc \in {"discard", "window", "check_info", "crashed"}

\* The whole number of days from time a to time b, none when b is before a.
WholeDays(a, b) == IF b >= a THEN (b - a) \div DayTicks ELSE 0

\* C36: for a mnemonic that is averaged the first window starts at the last
\* query time plus the query duration, each further window starts one day
\* after the one before, every window is one query duration long, and there
\* is one window per whole day between the first start and now; for a
\* mnemonic of type "none" there is one window, and it ends now.
C36_WindowsAsComputed ==
    WindowsComputed
    => IF mnemonic.telem_type # "none"
       THEN /\ Len(query_times)
               = WholeDays(MostRecentSearch + mnemonic.query_duration, today)
            /\ \A i \in 1..Len(query_times) :
                  /\ query_times[i].start
                     = MostRecentSearch + mnemonic.query_duration
                       + (i - 1) * DayTicks
                  /\ query_times[i].end
                     = query_times[i].start + mnemonic.query_duration
       ELSE /\ Len(query_times) = 1
            /\ query_times[1].end = today

\* ------------------------------------ run_pipeline.py: run_pipe, run_save_jump

\* The number of steps get_pipeline_steps gives for the instrument.
MaxSteps == 3

\* Steps of calwebb_detector1 (lines 13-27), in the order of the pipeline.
AllSteps == <<"dq_init", "saturation", "superbias", "refpix", "linearity",
              "dark_current", "jump", "rate">>

\* The keys of get_pipeline_steps(instrument), in their order (line 50).
StepOrder == SubSeq(AllSteps, 1, MaxSteps)

StepNames == {StepOrder[i] : i \in 1..MaxSteps}

\* What a step is called on at line 62.
RawInput == "input_file_name"

\* The calls that can raise in run_pipe: copy_files (line 47) or the call of
\* one step (lines 62, 65).
PipeFailures == {"none", "copy_files"} \cup StepNames

\* The arguments of run_pipe and what it finds: steps is the dictionary of
\* get_pipeline_steps, files the step names whose output file
\* <short_name>_<step>.fits is in the work directory, outputs the requested
\* outputs, fail the call that raises when it is made.
RunPipeArgs ==
    [fn : {"run_pipe"}, steps : [StepNames -> BOOLEAN],
     files : SUBSET StepNames, outputs : SUBSET StepNames,
     fail : PipeFailures, ramp_fit : {FALSE}, save_fitopt : {FALSE}]

\* Lines 96-100 with the exception swallowed: the function goes on to
\* line 102.
ExceptionThenDone(raised) ==
    [status |-> <<"EXCEPTION", "DONE">>, outcome |-> "return",
     raised |-> raised]

\* Lines 96-100 and 189-193, the handler of `except Exception as e`: the
\* status file is opened for writing and EXCEPTION is written; then
\* statfile.write(e) hands an exception object to a text file, which raises
\* TypeError; the with statement closes the file and the TypeError leaves
\* the function.  sys.exit(1) is not reached.
ExceptionHandler(raised) ==
    [status |-> <<"EXCEPTION">>, outcome |-> "TypeError", raised |-> raised]

\* Lines 102-103 and 195-196: nothing raised.
WriteDone == [status |-> <<"DONE">>, outcome |-> "return", raised |-> "none"]

\* Lines 89-94: every requested output file is in the work directory.
AllOutputsExist(outputs, files) == \A output \in outputs : output \in files

\* Lines 52-95 from step i on.  acc holds first_step_to_be_run, the step
\* whose result `model` is bound to, the output files in the work directory,
\* the calls of steps made so far, the call that raised and whether the loop
\* was left by the break of line 95.
RECURSIVE StepLoop(_, _, _)
StepLoop(args, i, acc) ==
    IF i > MaxSteps THEN acc
    ELSE LET step_name == StepOrder[i]
         IN IF ~args.steps[step_name] \/ step_name \in acc.files
            THEN StepLoop(args, i + 1, acc)
            ELSE IF args.fail = step_name
            THEN [acc EXCEPT !.raised = step_name]
            ELSE LET ran == [acc EXCEPT
                               !.first_step_to_be_run = FALSE,
                               !.model = step_name,
                               !.files = acc.files \cup {step_name},
                               !.calls = Append(acc.calls,
                                   [step |-> step_name,
                                    input |-> IF acc.first_step_to_be_run
                                              THEN RawInput ELSE acc.model])]
                 IN IF AllOutputsExist(args.outputs, ran.files)
                    THEN [ran EXCEPT !.broke = TRUE]
                    ELSE StepLoop(args, i + 1, ran)

\* run_pipe: the status file, how the call ended, the calls of steps it
\* made and the output files in the work directory after it.
run_pipe(args) ==
    LET start == [first_step_to_be_run |-> TRUE, model |-> "", files |-> args.files,
                  calls |-> <<>>, raised |-> "none", broke |-> FALSE]
        body == IF args.fail = "copy_files"
                THEN [start EXCEPT !.raised = "copy_files"]
                ELSE StepLoop(args, 1, start)
        end == IF body.raised # "none" THEN ExceptionHandler(body.raised)
               ELSE WriteDone
    IN [status |-> end.status, outcome |-> end.outcome,
        raised |-> end.raised, calls |-> body.calls, files |-> body.files,
        broke |-> body.broke]

\* The output files of run_save_jump (lines 155, 167, 171).
JumpFiles == {"jump", "0_ramp_fit", "fitopt"}

\* The calls that can raise in run_save_jump: reading the file (line 120) or
\* the pipeline (line 185).
JumpFailures == {"none", "RampModel", "model.run"}

RunSaveJumpArgs ==
    [fn : {"run_save_jump"}, steps : {<<>>}, files : SUBSET JumpFiles,
     outputs : {{}}, fail : JumpFailures, ramp_fit : BOOLEAN,
     save_fitopt : BOOLEAN]

\* run_save_jump: lines 159-182 decide from the files present whether the
\* pipeline is called (line 184).
run_save_jump(args) ==
    LET run_jump == "jump" \notin args.files
        run_slope == args.ramp_fit /\ "0_ramp_fit" \notin args.files
        run_fitopt == /\ args.ramp_fit
                      /\ args.save_fitopt
                      /\ "fitopt" \notin args.files
        call_pipeline == \/ run_jump
                         \/ (args.ramp_fit /\ run_slope)
                         \/ (args.save_fitopt /\ run_fitopt)
        raised == IF args.fail = "RampModel" THEN "RampModel"
                  ELSE IF call_pipeline /\ args.fail = "model.run"
                  THEN "model.run"
                  ELSE "none"
        end == IF raised # "none" THEN ExceptionHandler(raised)
               ELSE WriteDone
    IN [status |-> end.status, outcome |-> end.outcome,
        raised |-> end.raised,
        calls |-> IF call_pipeline /\ args.fail # "RampModel"
                  THEN <<[step |-> "calwebb_detector1", input |-> RawInput]>>
                  ELSE <<>>,
        files |-> args.files, broke |-> FALSE]

\* A call of run_pipe.
RunPipe ==
    /\ pipe_result = <<>>
    /\ \E args \in RunPipeArgs :
         /\ pipe_args' = <<args>>
         /\ pipe_result' = <<run_pipe(args)>>
    /\ UNCHANGED <<cacheVars, mergeVars, concVars, runVars, condVars>>
    /\ UNCHANGED <<changeVars, clipVars, timedVars, combineVars, scopeVars>>
    /\ UNCHANGED taskVars

\* A call of run_save_jump.
RunSaveJump ==
    /\ pipe_result = <<>>
    /\ \E args \in RunSaveJumpArgs :
         /\ pipe_args' = <<args>>
         /\ pipe_result' = <<run_save_jump(args)>>
    /\ UNCHANGED <<cacheVars, mergeVars, concVars, runVars, condVars>>
    /\ UNCHANGED <<changeVars, clipVars, timedVars, combineVars, scopeVars>>
    /\ UNCHANGED taskVars

InitPipe ==
    /\ PipeIdle
    /\ CacheIdle
    /\ MergeIdle
    /\ ConcIdle
    /\ RunIdle
    /\ CondIdle
    /\ ChangeIdle
    /\ ClipIdle
    /\ TimedIdle
    /\ CombineIdle
    /\ ScopeIdle
    /\ TaskIdle

NextPipe == RunPipe \/ RunSaveJump

SpecPipe == InitPipe /\ [][NextPipe]_vars

\* A call of run_pipe has been made.
RunPipeCalled == pipe_result # <<>> /\ pipe_args[1].fn = "run_pipe"

\* The enabled step next before step number i, RawInput when there is none.
PreviousEnabled(steps, i) ==
    LET before == {j \in 1..(i - 1) : steps[StepOrder[j]]}
    IN IF before = {} THEN RawInput ELSE StepOrder[Max(before)]

StepNumber(step_name) == CHOOSE i \in 1..MaxSteps : StepOrder[i] = step_name

\* C37: a step whose output file is already there is not run, and a step
\* that is run is called on the result of the enabled step next before it,
\* also when that step was skipped because its output file was there; only
\* the first enabled step is called on the input file.
C37_StepsChained ==
    RunPipeCalled
    => \A k \in 1..Len(pipe_result[1].calls) :
          LET c == pipe_result[1].calls[k]
          IN /\ c.step \notin pipe_args[1].files
             /\ c.input = PreviousEnabled(pipe_args[1].steps,
                                          StepNumber(c.step))

\* C38: when run_pipe ends by writing DONE, every requested output file is
\* in the work directory; the loop over the steps is left early only when
\* they all are.
C38_DoneMeansOutputsExist ==
    RunPipeCalled
    => /\ pipe_result[1].status[Len(pipe_result[1].status)] = "DONE"
          => AllOutputsExist(pipe_args[1].outputs, pipe_result[1].files)
       /\ pipe_result[1].broke
          => AllOutputsExist(pipe_args[1].outputs, pipe_result[1].files)

\* The exit status of the process in which the call was made and nothing
\* caught what left it: 1 for sys.exit(1) and for an exception that
\* reaches the top, 0 otherwise.
ExitStatus(outcome) == IF outcome = "return" THEN 0 ELSE 1

\* C39: run_pipe and run_save_jump write DONE only when no call of theirs
\* raised; when one raised, the status file holds EXCEPTION, the process
\* ends with status 1 and DONE is not written after it.
C39_DoneOnlyWithoutException ==
    pipe_result # <<>>
    => LET r == pipe_result[1]
       IN /\ (\E k \in 1..Len(r.status) : r.status[k] = "DONE")
             => r.raised = "none"
          /\ r.raised # "none"
             => /\ r.status = <<"EXCEPTION">>
                /\ ExitStatus(r.outcome) = 1
          /\ r.raised = "none" => r.status = <<"DONE">>

\* A step of run_pipe raised, and the pipeline call of run_save_jump raised.
C39_Witness ==
    /\ pipe_result # <<>>
    /\ pipe_result[1].raised \in StepNames \cup {"model.run"}
    /\ pipe_result[1].status = <<"EXCEPTION">>

\* ------------------------------------------- shared_tasks.py: celery tasks

\* The requests of the task that the monitors make.
MaxRequests == 3

Monitors == {"monitor_1", "monitor_2"}

\* The arguments a monitor asks run_calwebb_detector1 for.
TaskArguments ==
    [input_file_name : {"a_uncal.fits", "b_uncal.fits"},
     instrument : {"nircam"}]

\* The ids of the task messages that are queued or running.
Unfinished(state) ==
    {id \in DOMAIN state : state[id] \in {"PENDING", "STARTED"}}

\* run_calwebb_detector1.delay(...) for a task of a plain Celery application
\* (lines 141-145, 180-181: the task has no base class, celery_singleton is
\* not imported): every call sends a new message with an id of its own.
delay(requests, args) == Len(requests) + 1

\* The body of run_calwebb_detector1 in a worker: line 201 reads the local
\* input_file, which line 203 assigns, and raises UnboundLocalError.
run_calwebb_detector1(args) == "FAILURE"

\* A monitor asks for the task and is given the AsyncResult of its id.
Delay ==
    /\ Len(task_requests) < MaxRequests
    /\ \E monitor \in Monitors, args \in TaskArguments :
         LET id == delay(task_requests, args)
         IN /\ task_requests' = Append(task_requests,
                  [monitor |-> monitor, args |-> args, id |-> id,
                   unfinished |-> {r.id : r \in
                       {q \in {task_requests[k] : k \in 1..Len(task_requests)} :
                           /\ q.args = args
                           /\ q.id \in Unfinished(task_state)}}])
            /\ task_state' = [i \in DOMAIN task_state \cup {id} |->
                                 IF i \in DOMAIN task_state
                                 THEN task_state[i] ELSE "PENDING"]
    /\ UNCHANGED <<cacheVars, mergeVars, concVars, runVars, condVars>>
    /\ UNCHANGED <<changeVars, clipVars, timedVars, combineVars, scopeVars>>
    /\ UNCHANGED pipeVars

\* A worker takes the oldest queued message and starts the task.
WorkerStart ==
    /\ \E id \in DOMAIN task_state :
         /\ task_state[id] = "PENDING"
         /\ \A j \in DOMAIN task_state : task_state[j] = "PENDING" => id <= j
         /\ task_state' = [task_state EXCEPT ![id] = "STARTED"]
    /\ UNCHANGED <<task_requests, cacheVars, mergeVars, concVars, runVars>>
    /\ UNCHANGED <<condVars, changeVars, clipVars, timedVars, combineVars>>
    /\ UNCHANGED <<scopeVars, pipeVars>>

\* The task of a worker ends and its result is stored.
WorkerFinish ==
    /\ \E id \in DOMAIN task_state :
         /\ task_state[id] = "STARTED"
         /\ task_state' = [task_state EXCEPT ![id] =
               run_calwebb_detector1(task_requests[id].args)]
    /\ UNCHANGED <<task_requests, cacheVars, mergeVars, concVars, runVars>>
    /\ UNCHANGED <<condVars, changeVars, clipVars, timedVars, combineVars>>
    /\ UNCHANGED <<scopeVars, pipeVars>>

InitTasks ==
    /\ TaskIdle
    /\ CacheIdle
    /\ MergeIdle
    /\ ConcIdle
    /\ RunIdle
    /\ CondIdle
    /\ ChangeIdle
    /\ ClipIdle
    /\ TimedIdle
    /\ CombineIdle
    /\ ScopeIdle
    /\ PipeIdle

NextTasks == Delay \/ WorkerStart \/ WorkerFinish

SpecTasks == InitTasks /\ [][NextTasks]_vars

\* C40: a task is unique per requested resource: a request that a monitor
\* makes while a task that another monitor asked for with the same arguments
\* is queued or running is given the result object of that task, so that
\* the task is not executed a second time.
C40_TaskUniquePerResource ==
    \A k \in 1..Len(task_requests) :
        LET same == {task_requests[j].id : j \in
                       {i \in 1..(k - 1) :
                          /\ task_requests[i].id \in task_requests[k].unfinished
                          /\ task_requests[i].monitor
                             # task_requests[k].monitor}}
        IN same # {} => task_requests[k].id \in same

====
